---- MODULE Spec2Model ----
(***************************************************************************)
(* Model of sacad (desbma/sacad): the per-source HTTP subsystem (on-disk   *)
(* cache with get_or_set, get_api, the rate-limit window), the cover       *)
(* comparator and the search-and-download orchestrator.                     *)
(*                                                                         *)
(* The module holds several specifications over one set of variables; each *)
(* specification drives one subsystem and parks the variables of the       *)
(* others at their initial value:                                          *)
(*   Spec          Cache::get_or_set called by concurrent tasks            *)
(*   SpecApi       SourceHttpClient::get_api called by concurrent tasks    *)
(*   SpecRate      SourceHttpClient::wait / RateLimitState::wait_for       *)
(*   SpecCompare   cover::compare on pairs of covers                       *)
(*   SpecCompare3  cover::compare on triples of covers                     *)
(*   SpecSearch    search_and_download                                     *)
(*   SpecCache     the life of a Cache: open, set, get, close              *)
(*   SpecRegistry  SourceHttpClient::new on the registry of caches         *)
(*   SpecMinSize   SearchOptions::matches_min_size, the size filter        *)
(*   SpecRelevance Relevance::cmp on triples of relevances                 *)
(*   SpecDiscogs   parse_image_dimensions and the covers of Discogs        *)
(*   SpecItunes    the probes of Itunes::search                            *)
(*   SpecDownload  Cover::download of one cover                            *)
(*   SpecKept      the size filter followed by Cover::download             *)
(*   SpecNormalize source::normalize                                       *)
(*   SpecSanitize  sanitize_for_path of sacad_r                            *)
(*   SpecPattern   CoverOutputPattern::to_path_buf of sacad_r              *)
(*   SpecWalk      AudioFileIterator over a library                        *)
(*   SpecRateLive  SourceHttpClient::wait with time advancing              *)
(*   SpecWorkers   main, the channel and the workers of sacad_r            *)
(*   SpecArith     the unsigned arithmetic of the size bounds              *)
(***************************************************************************)
EXTENDS Integers, Sequences, FiniteSets, TLC

(***************************************************************************)
(* Bounds of the model.                                                    *)
(***************************************************************************)
\* number of concurrent tasks calling into one cache / one client
NTasks == 3
\* largest value of the system clock (seconds) in the cache specification
MaxClock == 1
\* largest reading of the monotonic clock (Instant), in ticks
MaxTime == 6
\* RateLimit.time, the length of a rate-limit window, in ticks
RlLength == 2
\* RateLimit.max_count, the number of requests allowed per window
RlLimit == 1
\* number of tasks sharing one client in the rate-limit specification
NRateTasks == 2
\* largest rank of a cover in its source's result list
MaxRank == 1
\* PerceptualHash::is_similar, MAX_HAMMING_DELTA of the blockhash build
MAX_HAMMING_DELTA == 2
\* largest value of the system clock, in seconds, in the life of a cache
MaxSecs == 2
\* max_age of the cache, in seconds
MaxAge == 1

Tasks == 1..NTasks
\* cache keys (URLs)
Keys == {"k1", "k2"}
\* payloads a producer or a server can answer with
Vals == {<<1>>, <<2, 2>>}
\* absent entry / no value
NoVal == <<>>
\* no task
NoTask == 0
\* Option<Duration>::None, the answer of wait_for that lets the request through
NoWait == -1
\* no cache handles: the handles of a source are numbered from 1
NoPair == [api |-> 0, thumbs |-> 0]

VARIABLES
    \* ---- tasks (shared by Spec, SpecApi, SpecRate) ----
    pc,         \* position of each task in the function it runs
    tkey,       \* the key / URL argument of each task's call
    tret,       \* what each task's call returned
    \* ---- Cache (src/http/cache.rs) ----
    db,         \* the redb table: key -> entry (created_at, compressed payload)
    db0,        \* the table as it was when the cache was opened
    busy,       \* Cache::busy, the keys that have a mutex in the map
    lockOwner,  \* for each key, the task holding its AsyncMutex
    produced,   \* for each key, how many times a producer was started
    sysTime,    \* SystemTime::now() in seconds since the epoch
    seenAtEnter,\* for each task, how many producers had been started for its
                \* key when it called get_or_set
    \* ---- SourceHttpClient (src/http/mod.rs) ----
    top,        \* the client operation each task runs
    now,        \* Instant::now(), in ticks
    rl,         \* RateLimitState: the variant and the window (start, count)
    wakeAt,     \* the deadline of each task's tokio::time::sleep
    gets,       \* for each URL, how many network GETs of get_api were sent
    issuedAt,   \* for each instant, how many requests wait_for let through
    windows,    \* the instants at which a rate-limit window started
    slept,      \* for each task, the sum of the sleeps wait_for ordered
                \* since its request arrived (NoWait: none ordered yet)
    \* ---- cover::compare (src/cover.rs) ----
    ca, cb, cc, \* the covers compared
    cmode,      \* the CompareMode of the comparison
    cres,       \* the orderings compare returned
    \* ---- search_and_download (src/lib.rs) ----
    sphase,     \* where search_and_download is
    spawnIdx,   \* the source the loop of search_all_sources is at
    stask,      \* for each source, the state of its search task
    sfound,     \* for each source, the covers its search returned
    merged,     \* what search_all_sources returned
    results,    \* the local variable results
    refHash,    \* what find_reference_hash returned
    sreference, \* the local variable reference
    attempts,   \* the downloads attempted so far, with their outcome
    sret,       \* what search_and_download returned
    exitCode,   \* the exit code of the process
    \* ---- life of a Cache: open, set, get, close (src/http/cache.rs) ----
    copen,      \* a Cache instance is open on the file
    cret,       \* what the last Cache::get returned, and on which entry
    written,    \* for each key, the last value set that no open has seen
                \* out of its max_age, and when it was set
    compacted,  \* the last maintenance compacted the database
    \* ---- SOURCE_CACHES and SourceHttpClient::new (src/http/mod.rs) ----
    rpc,        \* position of each task in SourceHttpClient::new
    readers,    \* the tasks holding the read lock of SOURCE_CACHES
    writer,     \* the task holding its write lock
    registry,   \* the entry of the source in SOURCE_CACHES
    dbOpens,    \* how many times each database of the source was opened
    cpair,      \* for each task, the caches of the client it built
    \* ---- find_reference_hash (src/lib.rs) ----
    refTried,   \* the candidates whose hash find_reference_hash computed, in
                \* order, with the outcome of each computation; kept until
                \* the sort
    \* ---- SearchOptions::matches_min_size (src/cl.rs) ----
    optSize,    \* SearchOptions.size
    optTol,     \* SearchOptions.size_tolerance_prct
    hint,       \* the hinted dimensions (width, height) of a cover
    kept,       \* what the size filter decided for the cover
    \* ---- Relevance (src/source/mod.rs) ----
    ra, rb, rc, \* the relevances compared
    rord,       \* the orderings Relevance::cmp returned
    \* ---- Discogs (src/source/discogs.rs) ----
    cover_image, \* the path segments of the image URL, left to right
    dims,       \* what parse_image_dimensions returned
    emitted,    \* the size hints of the covers Discogs::search pushed
    \* ---- Itunes::search (src/source/itunes.rs) ----
    itIdx,      \* the candidate URL the probe loop is at
    itResults,  \* the local variable results: the candidates accepted
    itRet,      \* what Itunes::search returned
    \* ---- Cover::download (src/cover.rs) ----
    coverFmt,   \* cover_format, the format of the downloaded data
    outExt,     \* the extension of the output path
    preserve,   \* ImageProcessingArgs.preserve_format
    dl,         \* what download did: the file written and how
    \* ---- normalize (src/source/mod.rs) ----
    nin,        \* the string normalize is called on, a sequence of characters
    nout,       \* normalize of it, and normalize of that
    \* ---- CoverOutputPattern (src/bin/sacad_r.rs) ----
    sin,        \* the string sanitize_for_path is called on
    sout,       \* sanitize_for_path of it, and of the result
    pattern,    \* the output pattern, a sequence of characters
    artist,     \* the artist tag
    album,      \* the album tag
    path,       \* what to_path_buf returned
    \* ---- AudioFileIterator (src/walk.rs) ----
    wtree,      \* the library: for each directory its parent, whether it can be read, its files
    wdirs,      \* AudioFileIterator.dirs, the stack of directories to read
    yielded,    \* the lists next returned, in order
    wstats,     \* Stats: audio_dirs, audio_files, errors
    wdone,      \* next returned None
    \* ---- Cover.size_px (src/cover.rs) ----
    sizeKnown,  \* size_px is Metadata::Known (its hint is the size of the image)
    actual,     \* the dimensions of the image once decoded, when size_px is Uncertain
    \* ---- liveness of SourceHttpClient::wait (src/http/mod.rs) ----
    zeroWait,   \* for each task, the last sleep wait_for ordered in its current wait was of zero duration
    \* ---- sacad_r: main and its workers (src/bin/sacad_r.rs) ----
    mainPc,     \* where main is
    chan,       \* the Work items in the channel, oldest first
    sent,       \* how many Work items main sent
    wstate,     \* for each worker, what it does and on which item
    handledBy,  \* for each item, the workers that received it
    incremented,\* for each item, the counters of Stats incremented for it, in order
    \* ---- the u32 arithmetic of SearchOptions (src/cl.rs) ----
    cliSize,    \* the size given on the command line
    cliTol,     \* the size_tolerance_prct given on the command line
    overflowChecks, \* whether the build checks integer overflow (debug) or wraps (release)
    sizeBounds  \* min_size and max_size as the program computes them

cacheVars == <<db, db0, busy, lockOwner, produced, sysTime, seenAtEnter>>
taskVars == <<pc, tkey, tret>>
httpVars == <<top, now, rl, wakeAt, gets, issuedAt, windows, slept>>
cmpVars == <<ca, cb, cc, cmode, cres>>
searchVars == <<sphase, spawnIdx, stask, sfound, merged, results, refHash,
                sreference, attempts, sret, exitCode>>
lifeVars == <<copen, cret, written, compacted>>
regVars == <<rpc, readers, writer, registry, dbOpens, cpair>>
refVars == <<refTried>>
sizeVars == <<optSize, optTol, hint, kept>>
\* the variables of the specifications of single functions
relVars == <<ra, rb, rc, rord>>
discogsVars == <<cover_image, dims, emitted>>
itunesVars == <<itIdx, itResults, itRet>>
dlVars == <<coverFmt, outExt, preserve, dl>>
normVars == <<nin, nout>>
pathVars == <<sin, sout, pattern, artist, album, path>>
walkVars == <<wtree, wdirs, yielded, wstats, wdone>>
pxVars == <<sizeKnown, actual>>
liveVars == <<zeroWait>>
workVars == <<mainPc, chan, sent, wstate, handledBy, incremented>>
arithVars == <<cliSize, cliTol, overflowChecks, sizeBounds>>
unitVars == <<optSize, optTol, hint, kept,
              ra, rb, rc, rord,
              cover_image, dims, emitted,
              itIdx, itResults, itRet,
              coverFmt, outExt, preserve, dl,
              nin, nout,
              sin, sout, pattern, artist, album, path,
              wtree, wdirs, yielded, wstats, wdone,
              sizeKnown, actual,
              zeroWait,
              mainPc, chan, sent, wstate, handledBy, incremented,
              cliSize, cliTol, overflowChecks, sizeBounds>>
\* the variables of the subsystems
coreVars == <<taskVars, cacheVars, httpVars, cmpVars, searchVars, lifeVars, regVars, refVars>>
\* the variables of the first specifications of single functions
unit3Vars == <<sizeVars, relVars, discogsVars, itunesVars, dlVars>>
\* the variables left alone by the single functions of unit3Vars
outerVars == <<taskVars, cacheVars, httpVars, cmpVars, searchVars, lifeVars, regVars, refVars,
              normVars,
              pathVars,
              walkVars,
              pxVars,
              liveVars,
              workVars,
              arithVars>>
\* the variables no operation of get_or_set or of the HTTP requests touches
restVars == <<ca, cb, cc, cmode, cres,
              sphase, spawnIdx, stask, sfound, merged, results, refHash,
              sreference, attempts, sret, exitCode,
              copen, cret, written, compacted,
              rpc, readers, writer, registry, dbOpens, cpair,
              refTried,
              optSize, optTol, hint, kept,
              ra, rb, rc, rord,
              cover_image, dims, emitted,
              itIdx, itResults, itRet,
              coverFmt, outExt, preserve, dl,
              nin, nout,
              sin, sout, pattern, artist, album, path,
              wtree, wdirs, yielded, wstats, wdone,
              sizeKnown, actual,
              zeroWait,
              mainPc, chan, sent, wstate, handledBy, incremented,
              cliSize, cliTol, overflowChecks, sizeBounds>>
vars == <<pc, tkey, tret, db, db0, busy, lockOwner, produced, sysTime, seenAtEnter,
          top, now, rl, wakeAt, gets, issuedAt, windows, slept,
          ca, cb, cc, cmode, cres,
          sphase, spawnIdx, stask, sfound, merged, results, refHash,
          sreference, attempts, sret, exitCode,
          copen, cret, written, compacted,
          rpc, readers, writer, registry, dbOpens, cpair,
          refTried,
          optSize, optTol, hint, kept,
          ra, rb, rc, rord,
          cover_image, dims, emitted,
          itIdx, itResults, itRet,
          coverFmt, outExt, preserve, dl,
          nin, nout,
          sin, sout, pattern, artist, album, path,
          wtree, wdirs, yielded, wstats, wdone,
          sizeKnown, actual,
          zeroWait,
          mainPc, chan, sent, wstate, handledBy, incremented,
          cliSize, cliTol, overflowChecks, sizeBounds>>

(***************************************************************************)
(* Compressor (cache.rs:22-51).  The LZ4 compressor frames the block with  *)
(* the uncompressed size; decompression fails when the block does not have *)
(* the announced size.  The null compressor copies the data.               *)
(***************************************************************************)
Lz4Compress(data) == [size |-> Len(data), block |-> data]

Lz4Decompress(stored) ==
    IF stored.size = Len(stored.block)
        THEN [ok |-> TRUE, data |-> stored.block]
        ELSE [ok |-> FALSE, data |-> NoVal]

NullCompress(data) == data

NullDecompress(stored) == [ok |-> TRUE, data |-> stored]

\* CacheEntry::from_uncompressed: (Self::now(), C::compress(data))
from_uncompressed(data, secs) == [created_at |-> secs, payload |-> Lz4Compress(data)]

\* the entry of an absent key
NoEntry == [created_at |-> 0, payload |-> [size |-> 0, block |-> NoVal]]

\* Cache::get on a healthy database: the uncompressed payload or none
get(table, key) ==
    IF table[key] = NoEntry
        THEN [ok |-> TRUE, some |-> FALSE, data |-> NoVal]
        ELSE LET d == Lz4Decompress(table[key].payload)
             IN  [ok |-> d.ok, some |-> d.ok, data |-> d.data]

\* an insert that leaves the entry of a key already present alone
set_KeepFirst(table, key, v, secs) ==
    IF table[key] = NoEntry THEN [table EXCEPT ![key] = from_uncompressed(v, secs)]
    ELSE table

\* Cache::set / set_multi with one pair: upsert with created_at = now
set(table, key, v, secs) == [table EXCEPT ![key] = from_uncompressed(v, secs)]

\* results of a call
Ok(v) == [kind |-> "Ok", data |-> v, err |-> ""]
Err(e) == [kind |-> "Err", data |-> NoVal, err |-> e]
NoRet == [kind |-> "None", data |-> NoVal, err |-> ""]

(***************************************************************************)
(* Cache::get_or_set (cache.rs:214-233)                                    *)
(***************************************************************************)
\* line 219-220: take (or create) the key's mutex in the busy map
GetOrSetEnter(t, k) ==
    /\ pc[t] = "idle"
    /\ busy' = busy \cup {k}
    /\ tkey' = [tkey EXCEPT ![t] = k]
    /\ pc' = [pc EXCEPT ![t] = "lock"]
    /\ seenAtEnter' = [seenAtEnter EXCEPT ![t] = produced[k]]
    /\ UNCHANGED <<tret, db, db0, lockOwner, produced, sysTime>>
    /\ UNCHANGED httpVars
    /\ UNCHANGED restVars

\* a get_or_set that awaits its producer whatever the cache holds
GetOrSetLockedBody_AlwaysProduce(t, k, dbFails) ==
    /\ lockOwner' = [lockOwner EXCEPT ![k] = t]
    /\ produced' = [produced EXCEPT ![k] = @ + 1]
    /\ pc' = [pc EXCEPT ![t] = "setter"]
    /\ UNCHANGED tret

\* the value of get_or_set's `if let Some(value) = self.get(key)?` once the
\* lock is held: a hit returns, a miss starts the producer (setter.await),
\* a database error returns early.  The lock guard is dropped on return.
GetOrSetLockedBody(t, k, dbFails) ==
    IF dbFails
        THEN /\ tret' = [tret EXCEPT ![t] = Err("Database")]
             /\ pc' = [pc EXCEPT ![t] = "done"]
             /\ UNCHANGED <<lockOwner, produced>>
        ELSE LET r == get(db, k) IN
             IF ~r.ok
                 THEN /\ tret' = [tret EXCEPT ![t] = Err("LZ4")]
                      /\ pc' = [pc EXCEPT ![t] = "done"]
                      /\ UNCHANGED <<lockOwner, produced>>
             ELSE IF r.some
                 THEN /\ tret' = [tret EXCEPT ![t] = Ok(r.data)]
                      /\ pc' = [pc EXCEPT ![t] = "done"]
                      /\ UNCHANGED <<lockOwner, produced>>
                 ELSE /\ lockOwner' = [lockOwner EXCEPT ![k] = t]
                      /\ produced' = [produced EXCEPT ![k] = @ + 1]
                      /\ pc' = [pc EXCEPT ![t] = "setter"]
                      /\ UNCHANGED tret

\* one mutex for all the keys instead of one for each
GetOrSetLocked_GlobalLock(t) ==
    /\ pc[t] = "lock"
    /\ \A k \in Keys : lockOwner[k] = NoTask
    /\ \E dbFails \in BOOLEAN : GetOrSetLockedBody(t, tkey[t], dbFails)
    /\ UNCHANGED <<tkey, db, db0, busy, sysTime, seenAtEnter>>
    /\ UNCHANGED httpVars
    /\ UNCHANGED restVars

\* mutant of GetOrSetLocked: the per-key mutex is not waited for
GetOrSetLocked_NoMutex(t) ==
    /\ pc[t] = "lock"
    /\ \E dbFails \in BOOLEAN : GetOrSetLockedBody(t, tkey[t], dbFails)
    /\ UNCHANGED <<tkey, db, db0, busy, sysTime, seenAtEnter>>
    /\ UNCHANGED httpVars
    /\ UNCHANGED restVars

\* line 221-225: entry_mutex.lock().await resolves when the mutex is free
GetOrSetLocked(t) ==
    /\ pc[t] = "lock"
    /\ lockOwner[tkey[t]] = NoTask
    /\ \E dbFails \in BOOLEAN : GetOrSetLockedBody(t, tkey[t], dbFails)
    /\ UNCHANGED <<tkey, db, db0, busy, sysTime, seenAtEnter>>
    /\ UNCHANGED httpVars
    /\ UNCHANGED restVars

\* a producer whose failure returns without releasing the lock of the key
GetOrSetSetterBody_KeepLockOnError(t, k, outcome, setFails) ==
    /\ lockOwner' = [lockOwner EXCEPT ![k] = IF outcome = NoVal THEN t ELSE NoTask]
    /\ pc' = [pc EXCEPT ![t] = "done"]
    /\ IF outcome = NoVal
           THEN /\ tret' = [tret EXCEPT ![t] = Err("Update")]
                /\ UNCHANGED db
           ELSE IF setFails
               THEN /\ tret' = [tret EXCEPT ![t] = Err("Database")]
                    /\ UNCHANGED db
               ELSE /\ db' = set(db, k, outcome, sysTime)
                    /\ tret' = [tret EXCEPT ![t] = Ok(outcome)]

\* line 226-228: the producer completes; its value is stored and returned,
\* its error (or the error of the store) is returned; the lock is released
GetOrSetSetterBody(t, k, outcome, setFails) ==
    /\ lockOwner' = [lockOwner EXCEPT ![k] = NoTask]
    /\ pc' = [pc EXCEPT ![t] = "done"]
    /\ IF outcome = NoVal
           THEN /\ tret' = [tret EXCEPT ![t] = Err("Update")]
                /\ UNCHANGED db
           ELSE IF setFails
               THEN /\ tret' = [tret EXCEPT ![t] = Err("Database")]
                    /\ UNCHANGED db
               ELSE /\ db' = set(db, k, outcome, sysTime)
                    /\ tret' = [tret EXCEPT ![t] = Ok(outcome)]

GetOrSetSetterDone(t) ==
    /\ pc[t] = "setter"
    /\ lockOwner[tkey[t]] = t
    /\ \E outcome \in Vals \cup {NoVal}, setFails \in BOOLEAN :
           GetOrSetSetterBody(t, tkey[t], outcome, setFails)
    /\ UNCHANGED <<tkey, db0, busy, produced, sysTime, seenAtEnter>>
    /\ UNCHANGED httpVars
    /\ UNCHANGED restVars

\* SystemTime advances (CacheEntry::now, cache.rs:75-80)
ClockTick ==
    /\ sysTime < MaxClock
    /\ sysTime' = sysTime + 1
    /\ UNCHANGED <<pc, tkey, tret, db, db0, busy, lockOwner, produced, seenAtEnter>>
    /\ UNCHANGED httpVars
    /\ UNCHANGED restVars

(***************************************************************************)
(* The life of a cache (cache.rs:150-265): with_path opens the file and    *)
(* runs maintenance, set / set_multi / get work on the open instance, the  *)
(* instance is dropped, the file is opened again.  The system clock can    *)
(* move both ways (cache.rs:74).                                           *)
(***************************************************************************)
\* a created_at that UNIX_EPOCH.checked_add cannot represent
BadSecs == MaxSecs + 1

\* maintenance, line 173: UNIX_EPOCH.checked_add(Duration::from_secs(entry.0))
checked_add(secs) == secs <= MaxSecs

\* an entry one second too old is kept
keep_entry_OneMore(entry, nowSecs, max_age) ==
    /\ checked_add(entry.created_at)
    /\ nowSecs >= entry.created_at
    /\ nowSecs - entry.created_at <= max_age + 1

\* an entry created after now is kept: its age counts as zero
keep_entry_FutureIsFresh(entry, nowSecs, max_age) ==
    /\ checked_add(entry.created_at)
    /\ (nowSecs >= entry.created_at => nowSecs - entry.created_at <= max_age)

\* maintenance, lines 172-185, the closure of table.retain:
\* now.duration_since(entry_created).is_ok_and(|d| d <= max_age)
keep_entry(entry, nowSecs, max_age) ==
    /\ checked_add(entry.created_at)
    /\ nowSecs >= entry.created_at
    /\ nowSecs - entry.created_at <= max_age

\* the table after table.retain
retained(table, nowSecs, max_age) ==
    [k \in Keys |-> IF table[k] # NoEntry /\ keep_entry(table[k], nowSecs, max_age)
                        THEN table[k] ELSE NoEntry]

\* maintenance: the count of entries removed
removed(table, nowSecs, max_age) ==
    Cardinality({k \in Keys : table[k] # NoEntry /\ retained(table, nowSecs, max_age)[k] = NoEntry})

\* Cache::set_multi (lines 244-265): the pairs are inserted in order
RECURSIVE set_multi(_, _, _)
set_multi(table, kvs, secs) ==
    IF kvs = <<>> THEN table
    ELSE set_multi(set(table, Head(kvs)[1], Head(kvs)[2], secs), Tail(kvs), secs)

\* no Cache::get has returned yet
NoGet == [key |-> "k1", kind |-> "None", data |-> NoVal, age |-> 0]

\* no value written
NoWrite == [v |-> NoVal, at |-> 0]

\* the values last written by set_multi(kvs) at secs
RECURSIVE WrittenBy(_, _, _)
WrittenBy(w, kvs, secs) ==
    IF kvs = <<>> THEN w
    ELSE WrittenBy([w EXCEPT ![Head(kvs)[1]] = [v |-> Head(kvs)[2], at |-> secs]],
                   Tail(kvs), secs)

\* the writes an open at nowSecs finds within max_age
StillWritten(w, nowSecs) ==
    [k \in Keys |-> IF w[k] # NoWrite /\ nowSecs >= w[k].at /\ nowSecs - w[k].at <= MaxAge
                        THEN w[k] ELSE NoWrite]

\* Cache::with_path (lines 150-162) with maintenance (lines 165-192): the
\* open or the write transaction fails, or the old entries are removed and
\* then the compaction, run when something was removed, succeeds or fails
OpenCache ==
    /\ ~copen
    /\ \E outcome \in {"ok", "db_error", "compaction_error"} :
        /\ outcome = "compaction_error" => removed(db, sysTime, MaxAge) > 0
        /\ copen' = (outcome = "ok")
        /\ db' = IF outcome = "db_error" THEN db ELSE retained(db, sysTime, MaxAge)
        /\ compacted' = (outcome = "ok" /\ removed(db, sysTime, MaxAge) > 0)
        /\ written' = IF outcome = "db_error" THEN written
                       ELSE StillWritten(written, sysTime)
    /\ cret' = NoGet
    /\ UNCHANGED <<db0, busy, lockOwner, produced, sysTime, seenAtEnter>>
    /\ UNCHANGED <<taskVars, httpVars, cmpVars, searchVars, regVars, refVars, unitVars>>

\* the Cache is dropped
CloseCache ==
    /\ copen
    /\ copen' = FALSE
    /\ UNCHANGED <<cret, written, compacted>>
    /\ UNCHANGED <<taskVars, cacheVars, httpVars, cmpVars, searchVars, regVars, refVars, unitVars>>

\* Cache::set_multi called with kvs; the transaction may fail
SetMultiBody(kvs) ==
    /\ copen
    /\ \E fails \in BOOLEAN :
        /\ db' = IF fails THEN db ELSE set_multi(db, kvs, sysTime)
        /\ written' = IF fails THEN written ELSE WrittenBy(written, kvs, sysTime)
    /\ UNCHANGED <<copen, cret, compacted>>
    /\ UNCHANGED <<db0, busy, lockOwner, produced, sysTime, seenAtEnter>>
    /\ UNCHANGED <<taskVars, httpVars, cmpVars, searchVars, regVars, refVars, unitVars>>

\* Cache::set (lines 236-241): set_multi of one pair
CacheSet(k, v) == SetMultiBody(<< <<k, v>> >>)

\* Cache::set_multi (lines 244-265) with two pairs
CacheSetMulti(kv1, kv2) == SetMultiBody(<<kv1, kv2>>)

\* Cache::get (lines 195-211) on a healthy database: what it returned and,
\* for the claims, the age of the entry it read
CacheGet(k) ==
    /\ copen
    /\ cret' = IF ~get(db, k).ok
                    THEN [key |-> k, kind |-> "Err", data |-> NoVal, age |-> 0]
                ELSE IF get(db, k).some
                    THEN [key |-> k, kind |-> "Some", data |-> get(db, k).data,
                          age |-> sysTime - db[k].created_at]
                ELSE [key |-> k, kind |-> "NoneFound", data |-> NoVal, age |-> 0]
    /\ UNCHANGED <<copen, written, compacted>>
    /\ UNCHANGED <<taskVars, cacheVars, httpVars, cmpVars, searchVars, regVars, refVars, unitVars>>

\* the system clock is set to another value
SetSystemTime ==
    /\ \E secs \in 0..MaxSecs : secs # sysTime /\ sysTime' = secs
    /\ UNCHANGED <<db, db0, busy, lockOwner, produced, seenAtEnter>>
    /\ UNCHANGED <<taskVars, httpVars, cmpVars, searchVars, lifeVars, regVars, refVars, unitVars>>

(***************************************************************************)
(* Rate limit (src/http/mod.rs)                                            *)
(***************************************************************************)
RateTasks == 1..NRateTasks

\* SourceHttpClient::new, lines 104-115: the rate-limit state of a new client
NewRateLimitState(limited, instant) ==
    IF limited
        THEN [kind |-> "Window", start |-> instant, count |-> 0]
        ELSE [kind |-> "None", start |-> 0, count |-> 0]

\* mutant of wait_for: the time to wait is computed with the operands of the
\* subtraction swapped (the elapsed time is added instead of subtracted)
wait_for_WrongDelay(state, instant) ==
    IF state.kind = "None"
        THEN [state |-> state, wait |-> NoWait]
    ELSE IF instant - state.start > RlLength
        THEN [state |-> [state EXCEPT !.start = instant, !.count = 1],
              wait |-> NoWait]
    ELSE IF state.count < RlLimit
        THEN [state |-> [state EXCEPT !.count = @ + 1], wait |-> NoWait]
    ELSE [state |-> state, wait |-> instant + RlLength - state.start]

\* a wait_for whose window never expires: once the window is full every
\* caller is told to wait
wait_for_NoReset(state, instant) ==
    IF state.kind = "None"
        THEN [state |-> state, wait |-> NoWait]
    ELSE IF state.count < RlLimit
        THEN [state |-> [state EXCEPT !.count = @ + 1], wait |-> NoWait]
    ELSE [state |-> state, wait |-> RlLength]

\* RateLimitState::wait_for (mod.rs:273-293): the updated state and None
\* when the request can be sent, or the duration to wait
wait_for(state, instant) ==
    IF state.kind = "None"
        THEN [state |-> state, wait |-> NoWait]
    ELSE IF instant - state.start > RlLength
        THEN [state |-> [state EXCEPT !.start = instant, !.count = 1],
              wait |-> NoWait]
    ELSE IF state.count < RlLimit
        THEN [state |-> [state EXCEPT !.count = @ + 1], wait |-> NoWait]
    ELSE [state |-> state, wait |-> state.start + RlLength - instant]

\* one turn of the loop of SourceHttpClient::wait (mod.rs:126-134): call
\* wait_for; leave the loop on None, sleep the returned duration otherwise
Wait(t) ==
    /\ pc[t] = "wait"
    /\ LET r == wait_for(rl, now) IN
       /\ rl' = r.state
       /\ IF r.wait = NoWait
              THEN /\ pc' = [pc EXCEPT ![t] = "send"]
                   /\ issuedAt' = IF rl.kind = "Window"
                                      THEN [issuedAt EXCEPT ![now] = @ + 1]
                                      ELSE issuedAt
                   /\ windows' = IF rl.kind = "Window"
                                     THEN windows \cup {r.state.start}
                                     ELSE windows
                   /\ wakeAt' = [wakeAt EXCEPT ![t] = 0]
                   /\ UNCHANGED slept
              ELSE /\ pc' = [pc EXCEPT ![t] = "sleep"]
                   /\ wakeAt' = [wakeAt EXCEPT ![t] = now + r.wait]
                   /\ slept' = [slept EXCEPT ![t] =
                                    IF @ = NoWait THEN r.wait ELSE @ + r.wait]
                   /\ UNCHANGED <<issuedAt, windows>>
    /\ UNCHANGED <<tkey, tret, top, now, gets>>
    /\ UNCHANGED cacheVars
    /\ UNCHANGED restVars

\* tokio::time::sleep(time_to_sleep) completes at or after its deadline
Wake(t) ==
    /\ pc[t] = "sleep"
    /\ now >= wakeAt[t]
    /\ pc' = [pc EXCEPT ![t] = "wait"]
    /\ UNCHANGED <<tkey, tret>>
    /\ UNCHANGED cacheVars
    /\ UNCHANGED httpVars
    /\ UNCHANGED restVars

\* the monotonic clock advances
Tick ==
    /\ now < MaxTime
    /\ now' = now + 1
    /\ UNCHANGED <<top, rl, wakeAt, gets, issuedAt, windows, slept>>
    /\ UNCHANGED taskVars
    /\ UNCHANGED cacheVars
    /\ UNCHANGED restVars

\* a task enters the rate-limited operation op: self.wait().await comes first
\* in download_cover (mod.rs:156)
StartRateLimited(t, op, k) ==
    /\ pc' = [pc EXCEPT ![t] = "wait"]
    /\ top' = [top EXCEPT ![t] = op]
    /\ tkey' = [tkey EXCEPT ![t] = k]
    /\ slept' = [slept EXCEPT ![t] = NoWait]

\* SourceHttpClient::download_cover (mod.rs:151-182), up to its wait
DownloadCover(t, k) ==
    /\ pc[t] \in {"idle", "done"}
    /\ StartRateLimited(t, "download_cover", k)
    /\ tret' = [tret EXCEPT ![t] = NoRet]
    /\ UNCHANGED <<now, rl, wakeAt, gets, issuedAt, windows>>
    /\ UNCHANGED cacheVars
    /\ UNCHANGED restVars

\* download_cover after the wait: the GET is sent and the body streamed to
\* the writer; a transport error or a non-2xx status fails the call
DownloadCoverSend(t) ==
    /\ pc[t] = "send"
    /\ top[t] = "download_cover"
    /\ \E res \in {Ok(NoVal), Err("Http")} : tret' = [tret EXCEPT ![t] = res]
    /\ pc' = [pc EXCEPT ![t] = "done"]
    /\ slept' = [slept EXCEPT ![t] = NoWait]
    /\ UNCHANGED <<tkey, top, now, rl, wakeAt, gets, issuedAt, windows>>
    /\ UNCHANGED cacheVars
    /\ UNCHANGED restVars

\* a head that waits for the rate limit as download_cover does
head_RateLimited(t, k) ==
    /\ pc[t] \in {"idle", "done"}
    /\ StartRateLimited(t, "head", k)
    /\ tret' = [tret EXCEPT ![t] = NoRet]
    /\ UNCHANGED <<now, rl, wakeAt, gets, issuedAt, windows>>
    /\ UNCHANGED cacheVars
    /\ UNCHANGED restVars

\* SourceHttpClient::head (mod.rs:136-148): a HEAD request, no wait
head(t, k) ==
    /\ pc[t] \in {"idle", "done"}
    /\ top' = [top EXCEPT ![t] = "head"]
    /\ tkey' = [tkey EXCEPT ![t] = k]
    /\ \E res \in {Ok(<<1>>), Ok(NoVal), Err("Http")} :
           tret' = [tret EXCEPT ![t] = res]
    /\ pc' = [pc EXCEPT ![t] = "done"]
    /\ UNCHANGED <<now, rl, wakeAt, gets, issuedAt, windows, slept>>
    /\ UNCHANGED cacheVars
    /\ UNCHANGED restVars

(***************************************************************************)
(* SourceHttpClient::get_api (mod.rs:200-224)                              *)
(***************************************************************************)
\* lines 202-211: look the URL up in the API cache; return a hit, wait for
\* the rate limit on a miss
GetApiLookup(t, k, dbFails) ==
    IF dbFails \/ ~get(db, k).ok
        THEN /\ tret' = [tret EXCEPT ![t] = Err("Database")]
             /\ pc' = [pc EXCEPT ![t] = "done"]
             /\ top' = [top EXCEPT ![t] = "get_api"]
             /\ tkey' = [tkey EXCEPT ![t] = k]
             /\ UNCHANGED slept
    ELSE IF get(db, k).some
        THEN /\ tret' = [tret EXCEPT ![t] = Ok(get(db, k).data)]
             /\ pc' = [pc EXCEPT ![t] = "done"]
             /\ top' = [top EXCEPT ![t] = "get_api"]
             /\ tkey' = [tkey EXCEPT ![t] = k]
             /\ UNCHANGED slept
    ELSE /\ StartRateLimited(t, "get_api", k)
         /\ UNCHANGED tret

GetApi(t, k) ==
    /\ pc[t] = "idle"
    /\ \E dbFails \in BOOLEAN : GetApiLookup(t, k, dbFails)
    /\ UNCHANGED <<now, rl, wakeAt, gets, issuedAt, windows>>
    /\ UNCHANGED cacheVars
    /\ UNCHANGED restVars

\* lines 212-222: the GET is sent; a transport error or an error status
\* fails the call; the body is stored in the API cache and returned
GetApiResponse(t, k, body, setFails) ==
    IF body = NoVal
        THEN /\ tret' = [tret EXCEPT ![t] = Err("Http")]
             /\ UNCHANGED db
    ELSE IF setFails
        THEN /\ tret' = [tret EXCEPT ![t] = Err("Database")]
             /\ UNCHANGED db
    ELSE /\ db' = set(db, k, body, sysTime)
         /\ tret' = [tret EXCEPT ![t] = Ok(body)]

GetApiSend(t) ==
    /\ pc[t] = "send"
    /\ top[t] = "get_api"
    /\ gets' = [gets EXCEPT ![tkey[t]] = @ + 1]
    /\ \E body \in Vals \cup {NoVal}, setFails \in BOOLEAN :
           GetApiResponse(t, tkey[t], body, setFails)
    /\ pc' = [pc EXCEPT ![t] = "done"]
    /\ slept' = [slept EXCEPT ![t] = NoWait]
    /\ UNCHANGED <<tkey, top, now, rl, wakeAt, issuedAt, windows>>
    /\ UNCHANGED <<db0, busy, lockOwner, produced, sysTime, seenAtEnter>>
    /\ UNCHANGED restVars

(***************************************************************************)
(* Covers and their comparison (src/cover.rs, src/source/mod.rs)           *)
(*                                                                         *)
(* A cover is a record                                                     *)
(*   w, h        size_px.value_hint(), in pixels                           *)
(*   sizeKnown   size_px is Metadata::Known                                *)
(*   fmt         format.value_hint(), "Jpeg" or "Png"                      *)
(*   fmtKnown    format is Metadata::Known                                 *)
(*   relevance   [fuzzy, only_front_covers, unrelated_risk]                *)
(*   rank        rank in the source's results                              *)
(*   key         CoverKey (url, source_name)                               *)
(* cmp::Ordering is "Less", "Equal" or "Greater".  The aspect ratios are   *)
(* f64 in the program; the model compares them as exact fractions, which   *)
(* agrees with f64 unless a difference falls within rounding of 0.15.      *)
(***************************************************************************)
\* Ord::cmp on integers
CmpInt(x, y) == IF x < y THEN "Less" ELSE IF x > y THEN "Greater" ELSE "Equal"

\* Ord::cmp on bool: false < true
CmpBool(x, y) == CmpInt(IF x THEN 1 ELSE 0, IF y THEN 1 ELSE 0)

\* Ordering::reverse
Reverse(o) == IF o = "Less" THEN "Greater" ELSE IF o = "Greater" THEN "Less" ELSE "Equal"

AbsDiff(x, y) == IF x >= y THEN x - y ELSE y - x

\* u32::midpoint
midpoint(x, y) == (x + y) \div 2

\* mutant of RelevanceCmp: more fuzzy is preferred
RelevanceCmp_FuzzyFirst(self, other) ==
    IF self.unrelated_risk # other.unrelated_risk
        THEN Reverse(CmpBool(self.unrelated_risk, other.unrelated_risk))
    ELSE IF self.only_front_covers # other.only_front_covers
        THEN CmpBool(self.only_front_covers, other.only_front_covers)
    ELSE CmpBool(self.fuzzy, other.fuzzy)

\* impl Ord for Relevance (source/mod.rs:37-60)
RelevanceCmp(self, other) ==
    IF CmpBool(self.unrelated_risk, other.unrelated_risk) = "Less"
        THEN "Greater"
    ELSE IF CmpBool(self.unrelated_risk, other.unrelated_risk) = "Greater"
        THEN "Less"
    ELSE IF CmpBool(self.only_front_covers, other.only_front_covers) # "Equal"
        THEN CmpBool(self.only_front_covers, other.only_front_covers)
    ELSE IF CmpBool(self.fuzzy, other.fuzzy) = "Less"
        THEN "Greater"
    ELSE IF CmpBool(self.fuzzy, other.fuzzy) = "Greater"
        THEN "Less"
    ELSE "Equal"

\* Relevance::is_reference (source/mod.rs:70-72)
is_reference(r) == ~r.fuzzy /\ r.only_front_covers /\ ~r.unrelated_risk

\* A perceptual hash is the set of its one bits.
\* Blockhash64::distance: the Hamming distance of two hashes
distance(h1, h2) == Cardinality((h1 \ h2) \cup (h2 \ h1))

\* u32::count_ones
RECURSIVE count_ones(_)
count_ones(n) == IF n = 0 THEN 0 ELSE (n % 2) + count_ones(n \div 2)

\* PerceptualHash::is_similar (perceptual_hash.rs:94-98, the blockhash
\* build): count_ones is applied to the distance
is_similar(h1, h2) ==
    count_ones(distance(h1, h2)) < MAX_HAMMING_DELTA

\* Option<SearchReference>::None
NoReference == [some |-> FALSE, reference |-> {}, hashes |-> <<>>]

\* Some(SearchReference {reference, hashes}); hashes maps some keys to a hash
SomeReference(h, hs) == [some |-> TRUE, reference |-> h, hashes |-> hs]

\* compare, lines 349-354: hashes.get(&c.key()).is_some_and(|h| h.is_similar(reference))
similar_to_ref(c, reference) ==
    /\ c.key \in DOMAIN reference.hashes
    /\ is_similar(reference.hashes[c.key], reference.reference)

\* the numerator of |w/h - 1| over the denominator h
RatioNum(c) == AbsDiff(c.w, c.h)

\* compare, line 336: (ratio_a - ratio_b).abs() > 0.15
ratio_gap(a, b) ==
    100 * AbsDiff(RatioNum(a) * b.h, RatioNum(b) * a.h) > 15 * a.h * b.h

\* ratio_x.cmp(&ratio_y)
ratio_cmp(x, y) == CmpInt(RatioNum(x) * y.h, RatioNum(y) * x.h)

\* "None" stands for a step of compare that does not decide
Undecided == "None"

\* mutant of similarity_step: the ordering is returned the wrong way round
similarity_step_Reversed(a, b, reference) ==
    IF reference.some /\ similar_to_ref(a, reference) # similar_to_ref(b, reference)
        THEN CmpBool(similar_to_ref(b, reference), similar_to_ref(a, reference))
        ELSE Undecided

\* compare, lines 347-358: prefer similar to reference
similarity_step(a, b, reference) ==
    IF reference.some /\ similar_to_ref(a, reference) # similar_to_ref(b, reference)
        THEN CmpBool(similar_to_ref(a, reference), similar_to_ref(b, reference))
        ELSE Undecided

\* mutant of above_target_step: a size equal to the target counts as below
above_target_step_Strict(avg_size_a, avg_size_b, size) ==
    IF CmpInt(avg_size_a, size) # "Greater" /\ CmpInt(avg_size_b, size) = "Greater"
        THEN "Less"
    ELSE IF CmpInt(avg_size_a, size) = "Greater" /\ CmpInt(avg_size_b, size) # "Greater"
        THEN "Greater"
    ELSE Undecided

\* compare, lines 360-369: prefer size above target size
above_target_step(avg_size_a, avg_size_b, size) ==
    IF CmpInt(avg_size_a, size) = "Less" /\ CmpInt(avg_size_b, size) \in {"Equal", "Greater"}
        THEN "Less"
    ELSE IF CmpInt(avg_size_a, size) \in {"Equal", "Greater"} /\ CmpInt(avg_size_b, size) = "Less"
        THEN "Greater"
    ELSE Undecided

\* compare, lines 371-374: if both below target size, prefer closest
below_target_step(avg_size_a, avg_size_b, size) ==
    IF avg_size_a # avg_size_b /\ avg_size_a < size /\ avg_size_b < size
        THEN CmpInt(avg_size_a, avg_size_b)
        ELSE Undecided

\* mutant of known_step: Known against Uncertain gives Greater both ways
known_step_OneWay(a_known, b_known) ==
    IF a_known /\ ~b_known THEN "Greater"
    ELSE IF ~a_known /\ b_known THEN "Greater"
    ELSE Undecided

\* compare, lines 387-397: prefer covers with reliable metadata
known_step(a_known, b_known) ==
    IF a_known /\ ~b_known THEN "Greater"
    ELSE IF ~a_known /\ b_known THEN "Less"
    ELSE Undecided

\* compare, lines 399-406: prefer covers closest to the target size
closest_step(avg_size_a, avg_size_b, size) ==
    IF avg_size_a # avg_size_b
        THEN CmpInt(AbsDiff(avg_size_b, size), AbsDiff(avg_size_a, size))
        ELSE Undecided

\* compare, lines 408-413: prefer PNG covers
png_step(a, b) ==
    IF a.fmt = "Jpeg" /\ b.fmt = "Png" THEN "Less"
    ELSE IF a.fmt = "Png" /\ b.fmt = "Jpeg" THEN "Greater"
    ELSE Undecided

\* CompareMode::Reference and CompareMode::Search {search_opts, reference};
\* of search_opts only the target size is read
ReferenceMode == [kind |-> "Reference", size |-> 0, reference |-> NoReference]

SearchMode(size, reference) == [kind |-> "Search", size |-> size, reference |-> reference]

\* the first element of a sequence of step results that decides, else dflt
RECURSIVE FirstDecided(_, _)
FirstDecided(steps, dflt) ==
    IF steps = <<>> THEN dflt
    ELSE IF Head(steps) # Undecided THEN Head(steps)
    ELSE FirstDecided(Tail(steps), dflt)

\* compare, lines 342-375: the steps taken in Search mode only, before relevance
search_steps(a, b, mode) ==
    IF mode.kind = "Search"
        THEN FirstDecided(<<similarity_step(a, b, mode.reference),
                            above_target_step(midpoint(a.w, a.h), midpoint(b.w, b.h), mode.size),
                            below_target_step(midpoint(a.w, a.h), midpoint(b.w, b.h), mode.size)>>,
                          Undecided)
        ELSE Undecided

\* compare (cover.rs:324-417)
compare(a, b, mode) ==
    IF ratio_gap(a, b) THEN ratio_cmp(b, a)
    ELSE IF search_steps(a, b, mode) # Undecided THEN search_steps(a, b, mode)
    ELSE IF a.relevance # b.relevance THEN RelevanceCmp(a.relevance, b.relevance)
    ELSE IF a.rank # b.rank THEN CmpInt(b.rank, a.rank)
    ELSE IF known_step(a.sizeKnown, b.sizeKnown) # Undecided
        THEN known_step(a.sizeKnown, b.sizeKnown)
    ELSE IF known_step(a.fmtKnown, b.fmtKnown) # Undecided
        THEN known_step(a.fmtKnown, b.fmtKnown)
    ELSE IF mode.kind = "Search"
            /\ closest_step(midpoint(a.w, a.h), midpoint(b.w, b.h), mode.size) # Undecided
        THEN closest_step(midpoint(a.w, a.h), midpoint(b.w, b.h), mode.size)
    ELSE IF png_step(a, b) # Undecided THEN png_step(a, b)
    ELSE ratio_cmp(b, a)

(***************************************************************************)
(* The covers and modes the comparator is applied to                       *)
(***************************************************************************)
\* the target size of the searches
TargetSize == 10

\* sizes below, at and above the target, square and not: the ratios are
\* 0, 0, 0.1 and 0.2 and the average sizes 8, 9, 10 and 11
CoverDims == {<<8, 8>>, <<9, 9>>, <<11, 10>>, <<12, 10>>}

Formats == {"Jpeg", "Png"}

Relevance(fuzzy, front, risk) ==
    [fuzzy |-> fuzzy, only_front_covers |-> front, unrelated_risk |-> risk]

AllRelevances == {Relevance(f, o, u) : f \in BOOLEAN, o \in BOOLEAN, u \in BOOLEAN}

\* the relevances the sources give: exact or fuzzy front covers
\* (Deezer, CoverArtArchive, ...) and Discogs' exact results of any kind
SourceRelevances ==
    {Relevance(FALSE, TRUE, FALSE), Relevance(TRUE, TRUE, FALSE),
     Relevance(FALSE, FALSE, FALSE)}

Ranks == 0..MaxRank

\* keys of covers: the hash of ka is similar to the reference, the hash of
\* kb is not, kc has no hash (its computation failed)
CoverKeys == {"ka", "kb", "kc"}

Cover(d, sk, f, fk, r, n, k) ==
    [w |-> d[1], h |-> d[2], sizeKnown |-> sk, fmt |-> f, fmtKnown |-> fk,
     relevance |-> r, rank |-> n, key |-> k]

CoversWithKeys(keys) ==
    {Cover(d, sk, f, fk, r, n, k) :
        d \in CoverDims, sk \in BOOLEAN, f \in Formats, fk \in BOOLEAN,
        r \in SourceRelevances, n \in Ranks, k \in keys}

\* a reference whose map holds a similar and a dissimilar hash
TheReference == SomeReference({}, [k \in {"ka", "kb"} |-> IF k = "ka" THEN {1} ELSE {1, 2, 3}])

\* the modes without a reference read no key
KeylessModes == {ReferenceMode, SearchMode(TargetSize, NoReference)}

\* the value of cres before the comparison
NoRes == [ab |-> Undecided, ba |-> Undecided, bc |-> Undecided, ac |-> Undecided]

\* apply compare to the pair (ca, cb), both ways
ComparePair ==
    /\ cres = NoRes
    /\ cres' = [NoRes EXCEPT !.ab = compare(ca, cb, cmode),
                             !.ba = compare(cb, ca, cmode)]
    /\ UNCHANGED <<ca, cb, cc, cmode>>
    /\ UNCHANGED <<taskVars, cacheVars, httpVars, searchVars, lifeVars, regVars, refVars, unitVars>>

\* the covers of the triples: squarer and less square covers that differ
\* in rank and format only
TripleCovers ==
    {Cover(d, TRUE, f, TRUE, Relevance(FALSE, TRUE, FALSE), n, "ka") :
        d \in {<<10, 10>>, <<11, 10>>, <<12, 10>>}, f \in Formats, n \in Ranks}

\* apply compare to the pairs of the triple (ca, cb, cc)
CompareTriple ==
    /\ cres = NoRes
    /\ cres' = [ab |-> compare(ca, cb, cmode), ba |-> compare(cb, ca, cmode),
                bc |-> compare(cb, cc, cmode), ac |-> compare(ca, cc, cmode)]
    /\ UNCHANGED <<ca, cb, cc, cmode>>
    /\ UNCHANGED <<taskVars, cacheVars, httpVars, searchVars, lifeVars, regVars, refVars, unitVars>>

(***************************************************************************)
(* search_and_download (src/lib.rs)                                        *)
(*                                                                         *)
(* The function runs alone; the search tasks of the sources run            *)
(* concurrently with each other and with the loop that spawns them.  The   *)
(* actions are cut at the awaits of the function: join_all, the perceptual *)
(* hashes and each download.                                               *)
(***************************************************************************)
\* the number of sources requested (SearchOptions::cover_sources)
NSources == 2

Sources == 1..NSources

\* SearchOptions::size_tolerance_prct, its default value
SizeTolerancePrct == 25

\* ExitCode::SUCCESS, ExitCode::FAILURE and no exit yet
SUCCESS == 0
FAILURE == 1
NoExit == -1

\* a minimum size that rounds the tolerated difference up
matches_min_size_Ceil(size_opt, tolerance, size) ==
    LET min_size == size_opt - (size_opt * tolerance + 99) \div 100
    IN  size >= min_size

\* SearchOptions::matches_min_size (cl.rs:105-108).  The arithmetic is u32
\* in the program; the sizes of the model stay far below the values at
\* which size * tolerance leaves the u32 range.
matches_min_size(size_opt, tolerance, size) ==
    LET min_size == size_opt - (size_opt * tolerance) \div 100
    IN  size >= min_size

\* the covers of source s: the first source is exact and returns front
\* covers only (its covers are reference candidates), the others are fuzzy
SourceCover(d, f, n, url, s) ==
    Cover(d, TRUE, f, TRUE,
          IF s = 1 THEN Relevance(FALSE, TRUE, FALSE) ELSE Relevance(TRUE, TRUE, FALSE),
          n, <<url, s>>)

\* what Source::search of source s can return when it succeeds; the small
\* cover of the other sources is below the minimum size, their cover f has
\* the size and format of cover b of the first source; b and h are two images
\* of one release, alike in all that compare looks at
SourceResults(s) ==
    IF s = 1
        THEN { <<>>,
               << SourceCover(<<12, 10>>, "Jpeg", 0, "b", s),
                  SourceCover(<<12, 10>>, "Jpeg", 0, "h", s) >>,
               << SourceCover(<<12, 10>>, "Jpeg", 0, "b", s),
                  SourceCover(<<10, 10>>, "Jpeg", 1, "a", s),
                  SourceCover(<<11, 10>>, "Png", 1, "c", s) >> }
        ELSE { <<>>,
               << SourceCover(<<9, 9>>, "Jpeg", 0, "d", s) >>,
               << SourceCover(<<7, 7>>, "Jpeg", 0, "e", s) >>,
               << SourceCover(<<12, 10>>, "Jpeg", 0, "f", s) >> }

\* the perceptual hash of the thumbnail of a cover
PerceptualHashOf(key) ==
    IF key[1] \in {"b", "d", "h"} THEN {}
    ELSE IF key[1] = "a" THEN {1}
    ELSE {1, 2, 3}

\* Option<PerceptualHash>
NoHash == [some |-> FALSE, hash |-> {}]
SomeHash(h) == [some |-> TRUE, hash |-> h]

\* anyhow::Result<SearchStatus> and no value yet
OkStatus(st) == [kind |-> "Ok", status |-> st]
NoStatus == [kind |-> "None", status |-> "None"]

\* search_all_sources, lines 61-88: the results of the tasks that returned
\* Ok, in the order the tasks were spawned; the others are dropped
RECURSIVE merge_from(_, _, _)
merge_from(s, tasks, found) ==
    IF s > NSources THEN <<>>
    ELSE (IF tasks[s] = "ok" THEN found[s] ELSE <<>>) \o merge_from(s + 1, tasks, found)

\* a merge that stops at the first source that failed
RECURSIVE merge_until_failure(_, _, _)
merge_until_failure(s, tasks, found) ==
    IF s > NSources \/ tasks[s] # "ok" THEN <<>>
    ELSE found[s] \o merge_until_failure(s + 1, tasks, found)

merge_results_StopAtFailure(tasks, found) == merge_until_failure(1, tasks, found)

merge_results(tasks, found) == merge_from(1, tasks, found)

\* the comparator handed to sorted_by and sort_unstable_by (lines 96,
\* 184-193): |a, b| compare(b, a, mode)
sort_cmp(a, b, mode) == compare(b, a, mode)

\* the sequences that hold the elements of s in another order
Permuted(s) ==
    LET n == Len(s)
        perms == {p \in [1..n -> 1..n] : \A i, j \in 1..n : p[i] = p[j] => i = j}
    IN  {[i \in 1..n |-> s[p[i]]] : p \in perms}

\* the comparator is a total order on the elements of s
TotalOrderOn(s, mode) ==
    \A i, j, k \in 1..Len(s) :
        (sort_cmp(s[i], s[j], mode) # "Greater" /\ sort_cmp(s[j], s[k], mode) # "Greater")
            => sort_cmp(s[i], s[k], mode) # "Greater"

IsSorted(q, mode) ==
    \A i, j \in 1..Len(q) : i < j => sort_cmp(q[i], q[j], mode) # "Greater"

\* slice::sort_by / sort_unstable_by: the elements in order when the
\* comparator is a total order; when it is not, the order is unspecified
\* and the sort may panic.  (Elements that compare Equal come in any order.)
SortOutcomes(s, mode) ==
    IF TotalOrderOn(s, mode) THEN {q \in Permuted(s) : IsSorted(q, mode)}
    ELSE Permuted(s)

SortMayPanic(s, mode) == ~TotalOrderOn(s, mode)

IsReferenceCover(c) == is_reference(c.relevance)

\* search_and_download, lines 167-170
MatchesMinSize(c) ==
    matches_min_size(TargetSize, SizeTolerancePrct, IF c.w <= c.h THEN c.w ELSE c.h)

KeysOf(s) == {s[i].key : i \in 1..Len(s)}

\* search_all_sources, lines 32-59: one iteration of the loop; the source
\* is skipped when its client cannot be built, else its task is spawned
SpawnSource ==
    /\ sphase = "spawn"
    /\ \E built \in BOOLEAN :
        stask' = [stask EXCEPT ![spawnIdx] = IF built THEN "running" ELSE "skipped"]
    /\ spawnIdx' = spawnIdx + 1
    /\ sphase' = IF spawnIdx = NSources THEN "join" ELSE "spawn"
    /\ UNCHANGED <<sfound, merged, results, refHash, sreference, attempts, sret, exitCode>>
    /\ UNCHANGED <<taskVars, cacheVars, httpVars, cmpVars, lifeVars, regVars, refVars, unitVars>>

\* lines 48-57: the task of source s ends: its search returned covers, or
\* returned an error, or the task panicked
SourceSearch(s) ==
    /\ stask[s] = "running"
    /\ \/ \E r \in SourceResults(s) :
            /\ stask' = [stask EXCEPT ![s] = "ok"]
            /\ sfound' = [sfound EXCEPT ![s] = r]
       \/ /\ stask' = [stask EXCEPT ![s] = "err"]
          /\ UNCHANGED sfound
       \/ /\ stask' = [stask EXCEPT ![s] = "panic"]
          /\ UNCHANGED sfound
    /\ UNCHANGED <<sphase, spawnIdx, merged, results, refHash, sreference,
                   attempts, sret, exitCode>>
    /\ UNCHANGED <<taskVars, cacheVars, httpVars, cmpVars, lifeVars, regVars, refVars, unitVars>>

\* a join that does not wait for the tasks still running
JoinAll_NoWait ==
    /\ sphase = "join"
    /\ merged' = merge_results(stask, sfound)
    /\ results' = merged'
    /\ sphase' = "reference"
    /\ UNCHANGED <<spawnIdx, stask, sfound, refHash, sreference, attempts, sret, exitCode>>
    /\ UNCHANGED <<taskVars, cacheVars, httpVars, cmpVars, lifeVars, regVars, refVars, unitVars>>

\* lines 61-88 and 161: join_all returns when every spawned task has ended
JoinAll ==
    /\ sphase = "join"
    /\ \A s \in Sources : stask[s] # "running"
    /\ merged' = merge_results(stask, sfound)
    /\ results' = merged'
    /\ sphase' = "reference"
    /\ UNCHANGED <<spawnIdx, stask, sfound, refHash, sreference, attempts, sret, exitCode>>
    /\ UNCHANGED <<taskVars, cacheVars, httpVars, cmpVars, lifeVars, regVars, refVars, unitVars>>

\* find_reference_hash (lines 92-112) and the size filter (lines 167-170):
\* the hash of the first reference candidate, in sorted order, whose
\* perceptual hash can be computed
FindReference ==
    /\ sphase = "reference"
    /\ LET candidates == SelectSeq(results, IsReferenceCover)
       IN  \/ /\ SortMayPanic(candidates, ReferenceMode)
              /\ sphase' = "panicked"
              /\ UNCHANGED <<refHash, results, refTried>>
           \/ \E sorted \in SortOutcomes(candidates, ReferenceMode) :
              \E failed \in 0..Len(sorted) :
                /\ refHash' = IF failed = Len(sorted) THEN NoHash
                              ELSE SomeHash(PerceptualHashOf(sorted[failed + 1].key))
                /\ refTried' = [i \in 1..(IF failed = Len(sorted) THEN failed ELSE failed + 1)
                                    |-> [cover |-> sorted[i], ok |-> i > failed]]
                /\ results' = SelectSeq(results, MatchesMinSize)
                /\ sphase' = "sort"
    /\ UNCHANGED <<spawnIdx, stask, sfound, merged, sreference, attempts, sret, exitCode>>
    /\ UNCHANGED <<taskVars, cacheVars, httpVars, cmpVars, lifeVars, regVars, unitVars>>

\* a sort that first drops the covers whose hash could not be computed
SortResults_DropUnhashed ==
    /\ sphase = "sort"
    /\ \E computed \in SUBSET KeysOf(results) :
        /\ refHash.some \/ computed = {}
        /\ sreference' = IF refHash.some
                            THEN SomeReference(refHash.hash,
                                               [k \in computed |-> PerceptualHashOf(k)])
                            ELSE NoReference
        /\ LET mode == SearchMode(TargetSize, sreference')
           IN  \/ /\ SortMayPanic(results, mode)
                  /\ sphase' = "panicked"
                  /\ UNCHANGED <<results, sret>>
               \/ \E sorted \in SortOutcomes(
                        IF refHash.some
                            THEN SelectSeq(results, LAMBDA c : c.key \in computed)
                            ELSE results, mode) :
                    /\ results' = sorted
                    /\ sphase' = IF sorted = <<>> THEN "returned" ELSE "download"
                    /\ sret' = IF sorted = <<>> THEN OkStatus("NotFound") ELSE NoStatus
    /\ refTried' = <<>>
    /\ UNCHANGED <<spawnIdx, stask, sfound, merged, refHash, attempts, exitCode>>
    /\ UNCHANGED <<taskVars, cacheVars, httpVars, cmpVars, lifeVars, regVars, unitVars>>

\* lines 173-212: with a reference hash, compute_perceptual_hashes (a hash
\* that cannot be computed is left out of the map); the sort; the loop is
\* entered, or NotFound is returned when there is nothing to download
SortResults ==
    /\ sphase = "sort"
    /\ \E computed \in SUBSET KeysOf(results) :
        /\ refHash.some \/ computed = {}
        /\ sreference' = IF refHash.some
                            THEN SomeReference(refHash.hash,
                                               [k \in computed |-> PerceptualHashOf(k)])
                            ELSE NoReference
        /\ LET mode == SearchMode(TargetSize, sreference')
           IN  \/ /\ SortMayPanic(results, mode)
                  /\ sphase' = "panicked"
                  /\ UNCHANGED <<results, sret>>
               \/ \E sorted \in SortOutcomes(results, mode) :
                    /\ results' = sorted
                    /\ sphase' = IF sorted = <<>> THEN "returned" ELSE "download"
                    /\ sret' = IF sorted = <<>> THEN OkStatus("NotFound") ELSE NoStatus
    /\ refTried' = <<>>
    /\ UNCHANGED <<spawnIdx, stask, sfound, merged, refHash, attempts, exitCode>>
    /\ UNCHANGED <<taskVars, cacheVars, httpVars, cmpVars, lifeVars, regVars, unitVars>>

\* a loop that goes on after a successful download
download_outcome_GoOn(ok, last) ==
    IF last THEN [phase |-> "returned", ret |-> OkStatus(IF ok THEN "Found" ELSE "NotFound")]
    ELSE [phase |-> "download", ret |-> NoStatus]

\* lines 198-212: what follows a download: return Found on success, go on
\* with the next cover on failure, return NotFound after the last one
download_outcome(ok, last) ==
    IF ok THEN [phase |-> "returned", ret |-> OkStatus("Found")]
    ELSE IF last THEN [phase |-> "returned", ret |-> OkStatus("NotFound")]
    ELSE [phase |-> "download", ret |-> NoStatus]

\* lines 198-205: one iteration of the download loop
Download ==
    /\ sphase = "download"
    /\ LET idx == Len(attempts) + 1
       IN  \E ok \in BOOLEAN :
            /\ attempts' = Append(attempts, [cover |-> results[idx], ok |-> ok])
            /\ sphase' = download_outcome(ok, idx = Len(results)).phase
            /\ sret' = download_outcome(ok, idx = Len(results)).ret
    /\ UNCHANGED <<spawnIdx, stask, sfound, merged, results, refHash, sreference, exitCode>>
    /\ UNCHANGED <<taskVars, cacheVars, httpVars, cmpVars, lifeVars, regVars, refVars, unitVars>>

\* a report that maps every status to SUCCESS
report_AlwaysSuccess(status) == SUCCESS

\* SearchStatus::report (lines 144-151)
report(status) == IF status = "Found" THEN SUCCESS ELSE FAILURE

\* bin/sacad.rs, main: the process exits with the report of what
\* search_and_download returned
Exit ==
    /\ sphase = "returned"
    /\ sphase' = "exited"
    /\ exitCode' = IF sret.kind = "Ok" THEN report(sret.status) ELSE FAILURE
    /\ UNCHANGED <<spawnIdx, stask, sfound, merged, results, refHash, sreference,
                   attempts, sret>>
    /\ UNCHANGED <<taskVars, cacheVars, httpVars, cmpVars, lifeVars, regVars, refVars, unitVars>>

(***************************************************************************)
(* SourceHttpClient::new and the registry SOURCE_CACHES of one source      *)
(*                                                                         *)
(* rpc[t]      where thread t is in SourceHttpClient::new                  *)
(* readers     the threads holding the read lock of SOURCE_CACHES          *)
(* writer      the thread holding its write lock, or NoTask                *)
(* registry    the pair registered for the source, or NoPair; a cache is   *)
(*             named by the number of the open that made it                *)
(* dbOpens     how many times each database was opened so far              *)
(* cpair[t]    the pair held by the client t constructed                   *)
(***************************************************************************)
RegUnchanged == UNCHANGED <<taskVars, cacheVars, httpVars, cmpVars, searchVars, lifeVars, refVars, unitVars>>

\* reqwest::Client::builder()...build()? (lines 66-71)
NewClientBuild(t) ==
    /\ rpc[t] = "idle"
    /\ \E ok \in BOOLEAN :
        rpc' = [rpc EXCEPT ![t] = IF ok THEN "read" ELSE "failed_client"]
    /\ UNCHANGED <<readers, writer, registry, dbOpens, cpair>>
    /\ RegUnchanged

\* SOURCE_CACHES.read() (line 74): granted while no thread writes
RegReadLock(t) ==
    /\ rpc[t] = "read"
    /\ writer = NoTask
    /\ readers' = readers \cup {t}
    /\ rpc' = [rpc EXCEPT ![t] = "reading"]
    /\ UNCHANGED <<writer, registry, dbOpens, cpair>>
    /\ RegUnchanged

\* .get(&source_name).cloned() under the read lock (lines 74-76); the guard
\* is a temporary of the `if let` scrutinee, dropped before the else block
RegReadLookup(t) ==
    /\ rpc[t] = "reading"
    /\ readers' = readers \ {t}
    /\ IF registry # NoPair
        THEN /\ cpair' = [cpair EXCEPT ![t] = registry]
             /\ rpc' = [rpc EXCEPT ![t] = "done"]
        ELSE /\ rpc' = [rpc EXCEPT ![t] = "write"]
             /\ UNCHANGED cpair
    /\ UNCHANGED <<writer, registry, dbOpens>>
    /\ RegUnchanged

\* SOURCE_CACHES.write() (line 77): granted while no thread reads or writes
RegWriteLock(t) ==
    /\ rpc[t] = "write"
    /\ writer = NoTask
    /\ readers = {}
    /\ writer' = t
    /\ rpc' = [rpc EXCEPT ![t] = "writing"]
    /\ UNCHANGED <<readers, registry, dbOpens, cpair>>
    /\ RegUnchanged

\* an entry() that takes every entry for vacant
RegWriteEntryBody_NoRecheck(t, opened) ==
    /\ dbOpens' = [dbOpens EXCEPT !.api = @ + 1]
    /\ IF opened
        THEN /\ rpc' = [rpc EXCEPT ![t] = "thumbs"]
             /\ UNCHANGED writer
        ELSE /\ rpc' = [rpc EXCEPT ![t] = "failed_open"]
             /\ writer' = NoTask
    /\ UNCHANGED cpair

\* .entry(source_name) under the write lock (lines 77-88): Occupied, the
\* pair is cloned; Vacant, Cache::new opens the api database or fails
RegWriteEntryBody(t, opened) ==
    IF registry # NoPair
        THEN /\ cpair' = [cpair EXCEPT ![t] = registry]
             /\ rpc' = [rpc EXCEPT ![t] = "done"]
             /\ writer' = NoTask
             /\ UNCHANGED dbOpens
        ELSE /\ dbOpens' = [dbOpens EXCEPT !.api = @ + 1]
             /\ IF opened
                 THEN /\ rpc' = [rpc EXCEPT ![t] = "thumbs"]
                      /\ UNCHANGED writer
                 ELSE /\ rpc' = [rpc EXCEPT ![t] = "failed_open"]
                      /\ writer' = NoTask
             /\ UNCHANGED cpair

RegWriteEntry(t) ==
    /\ rpc[t] = "writing"
    /\ \E opened \in BOOLEAN : RegWriteEntryBody(t, opened)
    /\ UNCHANGED <<readers, registry>>
    /\ RegUnchanged

\* ThumbnailCache::new, then entry.insert (lines 89-100); on failure the api
\* cache just opened is dropped with the write lock
RegOpenThumbs(t) ==
    /\ rpc[t] = "thumbs"
    /\ dbOpens' = [dbOpens EXCEPT !.thumbs = @ + 1]
    /\ writer' = NoTask
    /\ \E opened \in BOOLEAN :
        IF opened
            THEN /\ registry' = [api |-> dbOpens.api, thumbs |-> dbOpens.thumbs + 1]
                 /\ cpair' = [cpair EXCEPT ![t] = registry']
                 /\ rpc' = [rpc EXCEPT ![t] = "done"]
            ELSE /\ rpc' = [rpc EXCEPT ![t] = "failed_open"]
                 /\ UNCHANGED <<registry, cpair>>
    /\ UNCHANGED readers
    /\ RegUnchanged

\* a step of a construction that has started
RegStep ==
    \E t \in Tasks :
        \/ RegReadLock(t)
        \/ RegReadLookup(t)
        \/ RegWriteLock(t)
        \/ RegWriteEntry(t)
        \/ RegOpenThumbs(t)

(***************************************************************************)
(* The size filter of search_and_download (lib.rs:166-170) on one cover    *)
(***************************************************************************)
\* largest SearchOptions.size and largest hinted dimension of the model
MaxOptSize == 6
MaxDim == 7
\* the tolerances, in percent
Tolerances == 0..100

Min(a, b) == IF a <= b THEN a ELSE b
Max(a, b) == IF a >= b THEN a ELSE b

\* results.retain(..): min of the hinted dimensions against the minimum size
SizeFilter ==
    /\ kept = "none"
    /\ kept' = IF matches_min_size(optSize, optTol, Min(hint[1], hint[2]))
                   THEN "kept" ELSE "dropped"
    /\ UNCHANGED <<optSize, optTol, hint>>
    /\ UNCHANGED <<relVars, discogsVars, itunesVars, dlVars>>
    /\ UNCHANGED outerVars

(***************************************************************************)
(* Relevance::cmp (source/mod.rs:37-60) on triples of relevances           *)
(***************************************************************************)
\* apply cmp to the pairs of (ra, rb, rc)
RelevanceCompare ==
    /\ rord = NoRes
    /\ rord' = [ab |-> RelevanceCmp(ra, rb), ba |-> RelevanceCmp(rb, ra),
                bc |-> RelevanceCmp(rb, rc), ac |-> RelevanceCmp(ra, rc)]
    /\ UNCHANGED <<ra, rb, rc>>
    /\ UNCHANGED <<sizeVars, discogsVars, itunesVars, dlVars>>
    /\ UNCHANGED outerVars

(***************************************************************************)
(* Discogs: parse_image_dimensions (discogs.rs:56-75) and the cover pushed *)
(* for one result of the search (discogs.rs:101-131).  A URL is the        *)
(* sequence of its path segments; a segment is its prefix ("w:", "h:" or   *)
(* anything else) and the text after the prefix.                           *)
(***************************************************************************)
\* largest number of segments of a URL
MaxSegs == 3

Digits == {"0", "5", "6"}
DigitValue(c) == IF c = "0" THEN 0 ELSE IF c = "5" THEN 5 ELSE 6

\* the texts a segment can hold after its prefix
Texts == {<<>>, <<"0">>, <<"5">>, <<"6">>, <<"x">>, <<"5", "0">>}

Segments ==
    {[prefix |-> p, text |-> t] : p \in {"w:", "h:"}, t \in Texts}
        \cup {[prefix |-> "", text |-> <<"x">>]}

Urls == UNION {[1..n -> Segments] : n \in 0..MaxSegs}

\* Option<u32>
NoneU32 == [some |-> FALSE, n |-> 0]
SomeU32(n) == [some |-> TRUE, n |-> n]

RECURSIVE DecimalValue(_)
DecimalValue(t) ==
    IF t = <<>> THEN 0
    ELSE 10 * DecimalValue(SubSeq(t, 1, Len(t) - 1)) + DigitValue(t[Len(t)])

\* str::parse::<u32>().ok(): the decimal value of a non-empty text of digits
\* (the texts of the model are far below u32::MAX)
parse_u32(t) ==
    IF t = <<>> \/ \E i \in 1..Len(t) : t[i] \notin Digits THEN NoneU32
    ELSE SomeU32(DecimalValue(t))

\* parse_image_dimensions has not been called
NoDims == [called |-> FALSE, some |-> FALSE, w |-> 0, h |-> 0]
NoneDims == [called |-> TRUE, some |-> FALSE, w |-> 0, h |-> 0]
SomeDims(w, h) == [called |-> TRUE, some |-> TRUE, w |-> w, h |-> h]

\* the loop of lines 60-69 from segment i leftwards: a "w:" segment sets
\* width, else an "h:" segment sets height, to what its text parses to; the
\* loop ends when both are Some
RECURSIVE ScanSegments(_, _, _, _)
ScanSegments(u, i, width, height) ==
    IF i = 0 \/ (width.some /\ height.some) THEN <<width, height>>
    ELSE ScanSegments(u, i - 1,
            IF u[i].prefix = "w:" THEN parse_u32(u[i].text) ELSE width,
            IF u[i].prefix # "w:" /\ u[i].prefix = "h:" THEN parse_u32(u[i].text) ELSE height)

\* parse_image_dimensions (lines 56-75)
parse_image_dimensions(u) ==
    LET r == ScanSegments(u, Len(u), NoneU32, NoneU32)
    IN  IF r[1].some /\ r[2].some THEN SomeDims(r[1].n, r[2].n) ELSE NoneDims

\* Discogs::search has not gone through the result
NoEmitted == [ret |-> "none", covers |-> <<>>]

\* line 108: parse_image_dimensions(&result.cover_image)
ParseImageDimensions ==
    /\ ~dims.called
    /\ dims' = parse_image_dimensions(cover_image)
    /\ UNCHANGED <<cover_image, emitted>>
    /\ UNCHANGED <<sizeVars, relVars, itunesVars, dlVars>>
    /\ UNCHANGED outerVars

\* lines 108-131: without dimensions the result is skipped; a URL that does
\* not parse fails the search; else a cover with size_px known((width,
\* height)) is pushed
DiscogsResult ==
    /\ dims.called
    /\ emitted = NoEmitted
    /\ IF ~dims.some
        THEN emitted' = [ret |-> "Ok", covers |-> <<>>]
        ELSE \E parsed \in BOOLEAN :
                emitted' = IF parsed
                               THEN [ret |-> "Ok", covers |-> << <<dims.w, dims.h>> >>]
                               ELSE [ret |-> "Err", covers |-> <<>>]
    /\ UNCHANGED <<cover_image, dims>>
    /\ UNCHANGED <<sizeVars, relVars, itunesVars, dlVars>>
    /\ UNCHANGED outerVars

(***************************************************************************)
(* Itunes::search (itunes.rs:47-116): the loop that probes the candidate   *)
(* URLs of the matching results with HEAD requests                         *)
(***************************************************************************)
\* number of results of the response that match the album and the artist
NItunesResults == 1

\* lines 75-76: the sizes and the formats tried for each result, in order
ItunesSizes == <<5000, 1200, 600>>
ItunesFormats == <<"Jpeg", "Png">>

\* the n-th candidate URL of the search, n counted from 0
ItunesCandidate(n) ==
    [rank |-> n \div (Len(ItunesSizes) * Len(ItunesFormats)),
     size |-> ItunesSizes[((n \div Len(ItunesFormats)) % Len(ItunesSizes)) + 1],
     fmt |-> ItunesFormats[(n % Len(ItunesFormats)) + 1]]

NItunesCandidates == NItunesResults * Len(ItunesSizes) * Len(ItunesFormats)

\* Itunes::search has not returned
NoSearchRet == [kind |-> "none", covers |-> <<>>]

\* line 59: http.get_json(search_url).await?
ItunesSearchRequest ==
    /\ itIdx = 0
    /\ itRet = NoSearchRet
    /\ \E answered \in BOOLEAN :
        IF answered
            THEN itIdx' = 1 /\ UNCHANGED itRet
            ELSE itRet' = [kind |-> "Err", covers |-> <<>>] /\ UNCHANGED itIdx
    /\ UNCHANGED itResults
    /\ UNCHANGED <<sizeVars, relVars, discogsVars, dlVars>>
    /\ UNCHANGED outerVars

\* lines 74-113: the candidate URL is built and probed; `?` returns the
\* error of the probe (or of the URL construction) from search, dropping
\* the local results; a successful probe pushes the cover
ItunesProbe ==
    /\ itIdx \in 1..NItunesCandidates
    /\ itRet = NoSearchRet
    /\ \E probe \in {"true", "false", "error"} :
        /\ itRet' = IF probe = "error" THEN [kind |-> "Err", covers |-> <<>>] ELSE itRet
        /\ itResults' = IF probe = "true"
                            THEN Append(itResults, ItunesCandidate(itIdx - 1))
                            ELSE itResults
        /\ itIdx' = IF probe = "error" THEN itIdx ELSE itIdx + 1
    /\ UNCHANGED <<sizeVars, relVars, discogsVars, dlVars>>
    /\ UNCHANGED outerVars

\* line 116: Ok(results)
ItunesReturn ==
    /\ itIdx = NItunesCandidates + 1
    /\ itRet = NoSearchRet
    /\ itRet' = [kind |-> "Ok", covers |-> itResults]
    /\ UNCHANGED <<itIdx, itResults>>
    /\ UNCHANGED <<sizeVars, relVars, discogsVars, dlVars>>
    /\ UNCHANGED outerVars

(***************************************************************************)
(* Cover::download (cover.rs:165-281) of one cover                         *)
(***************************************************************************)
\* the extensions of the output path ("" when it has none)
Extensions == {"jpg", "jpeg", "png", "PNG", "tiff", ""}

\* str::to_lowercase on the extensions of the model
to_lowercase(ext) ==
    CASE ext = "PNG" -> "png"
      [] ext = "MP3" -> "mp3"
      [] OTHER -> ext

\* the tolerances of the downloads of the model, in percent
DlTolerances == {0, 25, 50}

\* Option<Format>::None
NoFormat == "none"

\* Format::from_extension (cover.rs:72-78)
from_extension(ext) ==
    IF to_lowercase(ext) \in {"jpg", "jpeg"} THEN "Jpeg"
    ELSE IF to_lowercase(ext) = "png" THEN "Png"
    ELSE NoFormat

\* Format::extension (cover.rs:98-103)
extension(f) == IF f = "Jpeg" THEN "jpg" ELSE "png"

\* lines 213-222: the format of the output path, JPEG when its extension
\* tells none
output_format(ext) ==
    IF ext = "" \/ from_extension(ext) = NoFormat THEN "Jpeg" ELSE from_extension(ext)

\* SearchOptions::matches_max_size (cl.rs:111-115), its debug_assert apart
matches_max_size(size_opt, tolerance, size) ==
    LET max_size == size_opt + (size_opt * tolerance) \div 100
    IN  size <= max_size

\* a format change asked for whatever preserve_format
need_format_change_IgnorePreserve(cover_format, out_format, preserve_format) ==
    cover_format # out_format

\* line 224
need_format_change(cover_format, out_format, preserve_format) ==
    (cover_format # out_format) /\ ~preserve_format

\* line 225
need_resize(size_opt, tolerance, size_px) ==
    ~matches_max_size(size_opt, tolerance, Max(size_px[1], size_px[2]))

\* lines 227-233: the extension of output_filepath
output_filepath(ext, cover_format, preserve_format, resize) ==
    IF ~resize /\ (cover_format # output_format(ext)) /\ preserve_format
        THEN extension(cover_format)
        ELSE ext

\* download has not been called
NoDownload ==
    [ret |-> "none", decided |-> FALSE, format_change |-> FALSE, resize |-> FALSE,
     converted |-> FALSE, path |-> "", file |-> NoFormat, crunch |-> "no"]

\* the download, the detection of the format or the decoding for the size
\* failed (lines 175-209): nothing is decided, nothing is written
FailedEarly == [NoDownload EXCEPT !.ret = "Err"]

\* the debug_assert of matches_max_size fails (a build with debug
\* assertions, a cover whose real size is below the minimum)
Panicked == [NoDownload EXCEPT !.ret = "Panic"]

\* lines 224-233: what download decides
Decided(ext, cover_format, preserve_format, size_opt, tolerance, size_px) ==
    [NoDownload EXCEPT
        !.decided = TRUE,
        !.format_change = need_format_change(cover_format, output_format(ext), preserve_format),
        !.resize = need_resize(size_opt, tolerance, size_px),
        !.path = output_filepath(ext, cover_format, preserve_format,
                                 need_resize(size_opt, tolerance, size_px))]

\* lines 235-253: the file is decoded, resized if needed and saved in the
\* output format, or copied as it is; either can fail
Written(d, cover_format, out_format, ok) ==
    IF ~ok THEN [d EXCEPT !.ret = "Err", !.converted = d.format_change \/ d.resize]
    ELSE [d EXCEPT !.converted = d.format_change \/ d.resize,
                   !.file = IF d.format_change \/ d.resize THEN out_format ELSE cover_format]

\* lines 255-278: with a PNG output format oxipng runs in a blocking task;
\* its error is logged, the panic of the task is returned by `.await?`
Crunched(d, out_format, outcome) ==
    IF d.ret = "Err" THEN d
    ELSE IF out_format # "Png" THEN [d EXCEPT !.ret = "Ok"]
    ELSE [d EXCEPT !.crunch = outcome,
                   !.ret = IF outcome = "panicked" THEN "Err" ELSE "Ok"]

\* lines 201-211: size_px is the known size of the cover, or the dimensions
\* of the decoded image when the size is uncertain
ResolvedSizePx == IF sizeKnown THEN hint ELSE actual

\* Cover::download
CoverDownload ==
    /\ dl = NoDownload
    /\ \E early \in BOOLEAN, debug \in BOOLEAN, saved \in BOOLEAN,
          outcome \in {"ok", "failed", "panicked"} :
        dl' = IF early THEN FailedEarly
              ELSE IF debug /\ ~matches_min_size(optSize, optTol,
                                                 Max(ResolvedSizePx[1], ResolvedSizePx[2]))
                  THEN Panicked
              ELSE Crunched(Written(Decided(outExt, coverFmt, preserve, optSize, optTol,
                                            ResolvedSizePx),
                                    coverFmt, output_format(outExt), saved),
                            output_format(outExt), outcome)
    /\ UNCHANGED <<coverFmt, outExt, preserve>>
    /\ UNCHANGED <<sizeVars, relVars, discogsVars, itunesVars>>
    /\ UNCHANGED outerVars

\* lib.rs:219-226: only the covers the size filter kept are downloaded
DownloadKept ==
    /\ kept = "kept"
    /\ CoverDownload

(***************************************************************************)
(* normalize (source/mod.rs:168-183).  A string is a sequence of           *)
(* characters; the characters of the model are named, with the canonical   *)
(* decomposition mapping and the lowercase mapping the Unicode character   *)
(* database gives them:                                                    *)
(*   A_grave  U+00C0 = A + U+0300         a_grave  U+00E0 = a + U+0300      *)
(*   A_ring   U+00C5 = A + U+030A         a_ring   U+00E5 = a + U+030A      *)
(*   ANGSTROM U+212B = U+00C5             I_dot    U+0130 = I + U+0307      *)
(*   grave U+0300, ring U+030A, dot U+0307 (combining marks)               *)
(* lowercase: A -> a, I -> i, H -> h, A_grave -> a_grave, A_ring and       *)
(* ANGSTROM -> a_ring, I_dot -> i followed by dot.                         *)
(***************************************************************************)
\* longest string of the model
MaxStrLen == 3

\* the characters of the strings normalize is called on
NormChars == {"A", "A_grave", "a_grave", "ANGSTROM", "I_dot", "H", "'"}

\* the decomposition mapping of a character (one step), <<>> when it has none
DecompositionMapping(c) ==
    CASE c = "A_grave" -> <<"A", "grave">>
      [] c = "a_grave" -> <<"a", "grave">>
      [] c = "A_ring" -> <<"A", "ring">>
      [] c = "a_ring" -> <<"a", "ring">>
      [] c = "ANGSTROM" -> <<"A_ring">>
      [] c = "I_dot" -> <<"I", "dot">>
      [] OTHER -> <<>>

\* the first character of one step of decomposition
FirstDecomposed_OneStep(c) ==
    IF DecompositionMapping(c) = <<>> THEN c ELSE DecompositionMapping(c)[1]

\* lines 176-179: decompose_canonical emits the characters of the full
\* (recursive) canonical decomposition, nc keeps the first one emitted
RECURSIVE FirstDecomposed(_)
FirstDecomposed(c) ==
    IF DecompositionMapping(c) = <<>> THEN c
    ELSE FirstDecomposed(DecompositionMapping(c)[1])

\* char::to_lowercase: the characters of the lowercase mapping
char_to_lowercase(c) ==
    CASE c = "A" -> <<"a">>
      [] c = "I" -> <<"i">>
      [] c = "H" -> <<"h">>
      [] c = "A_grave" -> <<"a_grave">>
      [] c = "A_ring" -> <<"a_ring">>
      [] c = "ANGSTROM" -> <<"a_ring">>
      [] c = "I_dot" -> <<"i", "dot">>
      [] OTHER -> <<c>>

\* lines 173-182: flat_map over the characters
RECURSIVE normalize(_)
normalize(str) ==
    IF str = <<>> THEN <<>>
    ELSE char_to_lowercase(FirstDecomposed(Head(str))) \o normalize(Tail(str))

\* normalize has not been called
NoNormalized == [called |-> FALSE, once |-> <<>>, twice |-> <<>>]

\* normalize(s), then normalize of the result
Normalize ==
    /\ ~nout.called
    /\ nout' = [called |-> TRUE, once |-> normalize(nin),
                twice |-> normalize(normalize(nin))]
    /\ UNCHANGED nin
    /\ UNCHANGED <<coreVars, unit3Vars>>
    /\ UNCHANGED <<pathVars, walkVars, pxVars, liveVars, workVars, arithVars>>

(***************************************************************************)
(* CoverOutputPattern (bin/sacad_r.rs:52-85): sanitize_for_path and        *)
(* to_path_buf.  A string is a sequence of characters, each a string of    *)
(* length one; e_acute stands for a character out of ASCII.                *)
(***************************************************************************)
\* the characters of the strings sanitize_for_path is called on
SanChars == {"/", "\\", "|", "*", "a", " ", ".", "{", ":", "e_acute"}

\* line 68: the characters of VALID_ASCII_PUNCTUATION
VALID_ASCII_PUNCTUATION ==
    {"-", "_", ".", "(", ")", "!", "#", "$", "%", "&", "'", "@", "^", "{", "}", "~"}

\* char::is_ascii_alphanumeric on the characters of the model
is_ascii_alphanumeric(c) ==
    c \in {"a", "b", "c", "i", "l", "m", "r", "s", "t", "u", "x", "A", "B", "9"}

\* lines 70-81: the closure of filter_map; <<>> is None
SanitizeChar(c) ==
    IF c \in {"/", "\\"} THEN <<"-">>
    ELSE IF c \in {"|", "*"} THEN <<"x">>
    ELSE IF is_ascii_alphanumeric(c) \/ c \in VALID_ASCII_PUNCTUATION \/ c = " "
        THEN <<c>>
    ELSE <<>>

\* lines 69-82: filter_map(..).collect::<String>()
RECURSIVE FilterMapChars(_)
FilterMapChars(str) ==
    IF str = <<>> THEN <<>> ELSE SanitizeChar(Head(str)) \o FilterMapChars(Tail(str))

\* str::trim_start_matches([' ', '.'])
RECURSIVE trim_start_matches(_)
trim_start_matches(str) ==
    IF str # <<>> /\ Head(str) \in {" ", "."}
        THEN trim_start_matches(Tail(str))
        ELSE str

\* str::trim_end_matches([' ', '.'])
RECURSIVE trim_end_matches(_)
trim_end_matches(str) ==
    IF str # <<>> /\ str[Len(str)] \in {" ", "."}
        THEN trim_end_matches(SubSeq(str, 1, Len(str) - 1))
        ELSE str

\* only the start is trimmed
trim_matches_StartOnly(str) == trim_start_matches(str)

\* line 83: str::trim_matches([' ', '.'])
trim_matches(str) == trim_end_matches(trim_start_matches(str))

\* CoverOutputPattern::sanitize_for_path (lines 66-85)
sanitize_for_path(str) == trim_matches(FilterMapChars(str))

\* sanitize_for_path has not been called
NoSanitized == [called |-> FALSE, once |-> <<>>, twice |-> <<>>]

\* sanitize_for_path(s), then sanitize_for_path of the result
Sanitize ==
    /\ ~sout.called
    /\ sout' = [called |-> TRUE, once |-> sanitize_for_path(sin),
                twice |-> sanitize_for_path(sanitize_for_path(sin))]
    /\ UNCHANGED <<sin, pattern, artist, album, path>>
    /\ UNCHANGED <<coreVars, unit3Vars>>
    /\ UNCHANGED <<normVars, walkVars, pxVars, liveVars, workVars, arithVars>>

\* the placeholders
ArtistPlaceholder == <<"{", "a", "r", "t", "i", "s", "t", "}">>
AlbumPlaceholder == <<"{", "a", "l", "b", "u", "m", "}">>

\* the pieces the patterns of the model are made of
PatternPieces == {ArtistPlaceholder, AlbumPlaceholder, <<"/">>, <<"c">>}

\* largest number of pieces of a pattern
MaxPieces == 3

RECURSIVE Concat(_)
Concat(pieces) ==
    IF pieces = <<>> THEN <<>> ELSE Head(pieces) \o Concat(Tail(pieces))

\* the patterns of the model
Patterns == {Concat(ps) : ps \in UNION {[1..n -> PatternPieces] : n \in 0..MaxPieces}}

\* the tags of the model
Tags == {<<"A">>, <<"A", "/", "B">>, <<" ", "A", ".">>, AlbumPlaceholder, ArtistPlaceholder}

\* str::replace: every non-overlapping match of from, found left to right,
\* is replaced by to
RECURSIVE replace(_, _, _)
replace(str, from, to) ==
    IF Len(str) < Len(from) THEN str
    ELSE IF SubSeq(str, 1, Len(from)) = from
        THEN to \o replace(SubSeq(str, Len(from) + 1, Len(str)), from, to)
    ELSE <<Head(str)>> \o replace(Tail(str), from, to)

\* CoverOutputPattern::to_path_buf (lines 53-64)
to_path_buf(pat, artist_tag, album_tag) ==
    LET safe_artist == sanitize_for_path(artist_tag)
        safe_album == sanitize_for_path(album_tag)
    IN  replace(replace(pat, ArtistPlaceholder, safe_artist),
                AlbumPlaceholder, safe_album)

\* to_path_buf has not been called
NoPath == [called |-> FALSE, buf |-> <<>>]

ToPathBuf ==
    /\ ~path.called
    /\ path' = [called |-> TRUE, buf |-> to_path_buf(pattern, artist, album)]
    /\ UNCHANGED <<sin, sout, pattern, artist, album>>
    /\ UNCHANGED <<coreVars, unit3Vars>>
    /\ UNCHANGED <<normVars, walkVars, pxVars, liveVars, workVars, arithVars>>

(***************************************************************************)
(* AudioFileIterator (walk.rs:31-110).  The library is a tree of           *)
(* directories 1..NDirs of root 1; a directory can be read or not and      *)
(* holds files, each an entry with an extension, a file type, and          *)
(* possibly an error when the entry or its type is read.                   *)
(***************************************************************************)
\* number of directories of the library
NDirs == 2

\* lines 48-58: AUDIO_EXTENSIONS
AUDIO_EXTENSIONS ==
    {"aac", "ape", "flac", "m4a", "mp3", "mp4", "mpc", "ogg", "oga", "opus", "tta", "wv"}

\* the same without to_lowercase
is_audio_file_CaseSensitive(ext) == ext \in AUDIO_EXTENSIONS

\* AudioFileIterator::is_audio_file, on the extension of the path
is_audio_file(ext) == to_lowercase(ext) \in AUDIO_EXTENSIONS

\* the files a directory of the model can hold
FileKinds ==
    { [name |-> "a", ext |-> "mp3", ftype |-> "file", err |-> "none"],
      [name |-> "b", ext |-> "MP3", ftype |-> "file", err |-> "none"],
      [name |-> "c", ext |-> "txt", ftype |-> "file", err |-> "none"],
      [name |-> "d", ext |-> "mp3", ftype |-> "file", err |-> "entry"],
      [name |-> "e", ext |-> "mp3", ftype |-> "symlink", err |-> "none"] }

\* what a directory can be: it is read with any of the files, or it cannot
\* be read
DirKinds ==
    {[readable |-> TRUE, files |-> fs] : fs \in SUBSET FileKinds}
    \cup {[readable |-> FALSE, files |-> fs] : fs \in {{}, {f \in FileKinds : f.name = "a"}}}

\* the libraries of the model
Trees ==
    { [parent |-> par, dir |-> ds] :
        par \in {q \in [1..NDirs -> 0..NDirs] : \A d \in 1..NDirs : q[d] < d /\ (d > 1 => q[d] >= 1)},
        ds \in [1..NDirs -> DirKinds] }

NoTree == [parent |-> <<>>, dir |-> <<>>]
NoStats == [audio_dirs |-> 0, audio_files |-> 0, errors |-> 0]

\* the subdirectories of d from c on, in the order read_dir gives them
RECURSIVE SubDirs(_, _, _)
SubDirs(tree, d, c) ==
    IF c > Len(tree.parent) THEN <<>>
    ELSE (IF tree.parent[c] = d THEN <<c>> ELSE <<>>) \o SubDirs(tree, d, c + 1)

\* lines 65-104: the loop of next from the stack dirs, with the errors
\* counted so far in this call; item.dir = 0 is None
RECURSIVE NextLoop(_, _, _)
NextLoop(tree, dirs, errs) ==
    IF dirs = <<>>
        THEN [dirs |-> dirs, errors |-> errs, item |-> [dir |-> 0, files |-> {}]]
    ELSE LET d == dirs[Len(dirs)]
             rest == SubSeq(dirs, 1, Len(dirs) - 1)
         IN  IF ~tree.dir[d].readable
                 THEN NextLoop(tree, rest, errs + 1)
             ELSE LET pushed == rest \o SubDirs(tree, d, 1)
                      failed == {f \in tree.dir[d].files : f.err # "none"}
                      audio_files == {f \in tree.dir[d].files :
                                        /\ f.err = "none"
                                        /\ f.ftype = "file"
                                        /\ is_audio_file(f.ext)}
                  IN  IF audio_files # {}
                          THEN [dirs |-> pushed, errors |-> errs + Cardinality(failed),
                                item |-> [dir |-> d, files |-> audio_files]]
                          ELSE NextLoop(tree, pushed, errs + Cardinality(failed))

\* AudioFileIterator::next (lines 64-108)
WalkNext ==
    /\ wtree # NoTree
    /\ ~wdone
    /\ LET r == NextLoop(wtree, wdirs, 0)
       IN  /\ wdirs' = r.dirs
           /\ wdone' = (r.item.dir = 0)
           /\ yielded' = IF r.item.dir = 0 THEN yielded ELSE Append(yielded, r.item)
           /\ wstats' = [audio_dirs |-> wstats.audio_dirs + (IF r.item.dir = 0 THEN 0 ELSE 1),
                         audio_files |-> wstats.audio_files + Cardinality(r.item.files),
                         errors |-> wstats.errors + r.errors]
    /\ UNCHANGED wtree
    /\ UNCHANGED <<coreVars, unit3Vars>>
    /\ UNCHANGED <<normVars, pathVars, pxVars, liveVars, workVars, arithVars>>

(***************************************************************************)
(* SourceHttpClient::wait (mod.rs:126-134) with a clock that never stops.  *)
(* wait_for only compares Instant::now() with the start of the window and  *)
(* sleep with the deadline, so the instants are kept relative to now: now  *)
(* stays at LiveNow and the passing of one tick moves the start of the     *)
(* window and the deadlines one tick back, down to 0, where the window has *)
(* expired and the deadlines have passed.                                  *)
(***************************************************************************)
LiveNow == RlLength + 1

\* one turn of the loop of wait: the histories of the requests are not kept
LiveWait(t) ==
    /\ t \in RateTasks
    /\ pc[t] = "wait"
    /\ LET r == wait_for(rl, now) IN
       /\ rl' = r.state
       /\ IF r.wait = NoWait
              THEN /\ pc' = [pc EXCEPT ![t] = "send"]
                   /\ wakeAt' = [wakeAt EXCEPT ![t] = 0]
                   /\ UNCHANGED zeroWait
              ELSE /\ pc' = [pc EXCEPT ![t] = "sleep"]
                   /\ wakeAt' = [wakeAt EXCEPT ![t] = now + r.wait]
                   /\ zeroWait' = [zeroWait EXCEPT ![t] = (r.wait = 0)]
    /\ UNCHANGED <<tkey, tret, top, now, gets, issuedAt, windows, slept>>
    /\ UNCHANGED <<cacheVars, cmpVars, searchVars, lifeVars, regVars, refVars>>
    /\ UNCHANGED <<unit3Vars, normVars, pathVars, walkVars, pxVars, workVars, arithVars>>

\* the request is sent and answered
LiveSend(t) ==
    /\ t \in RateTasks
    /\ pc[t] = "send"
    /\ pc' = [pc EXCEPT ![t] = "done"]
    /\ tret' = [tret EXCEPT ![t] = Ok(NoVal)]
    /\ zeroWait' = [zeroWait EXCEPT ![t] = FALSE]
    /\ UNCHANGED <<tkey, httpVars>>
    /\ UNCHANGED <<cacheVars, cmpVars, searchVars, lifeVars, regVars, refVars>>
    /\ UNCHANGED <<unit3Vars, normVars, pathVars, walkVars, pxVars, workVars, arithVars>>

\* the monotonic clock advances by one tick
LiveTick ==
    /\ rl' = [rl EXCEPT !.start = Max(0, @ - 1)]
    /\ wakeAt' = [t \in Tasks |-> Max(0, wakeAt[t] - 1)]
    /\ UNCHANGED <<top, now, gets, issuedAt, windows, slept>>
    /\ UNCHANGED zeroWait
    /\ UNCHANGED <<taskVars, cacheVars, cmpVars, searchVars, lifeVars, regVars, refVars>>
    /\ UNCHANGED <<unit3Vars, normVars, pathVars, walkVars, pxVars, workVars, arithVars>>

(***************************************************************************)
(* sacad_r (bin/sacad_r.rs:88-257): main sends Work items on a bounded     *)
(* channel, the workers receive them and handle them                       *)
(***************************************************************************)
\* number of workers (WORKER_COUNT in the program)
NWorkers == 2
\* largest number of Work items main sends
NItems == 2
\* capacity of the channel
ChanCap == 1

Workers == 1..NWorkers
Items == 1..NItems

\* the workers whose task is over: their receiver is dropped
Gone == {w \in Workers : wstate[w].st \in {"exited", "panicked"}}

WorkUnchanged ==
    /\ UNCHANGED <<coreVars, unit3Vars>>
    /\ UNCHANGED <<normVars, pathVars, walkVars, pxVars, liveVars, arithVars>>

\* line 247: work_tx.send_blocking(..) when the channel is not full; it
\* blocks while the channel is full.  main keeps its own receiver (line
\* 183, only clones are given to the workers), so the channel is never
\* closed from the receiving side and the send never fails
MainSend ==
    /\ mainPc = "walk"
    /\ sent < NItems
    /\ Len(chan) < ChanCap
    /\ chan' = Append(chan, sent + 1)
    /\ sent' = sent + 1
    /\ UNCHANGED <<mainPc, wstate, handledBy, incremented>>
    /\ WorkUnchanged

\* line 250: the walk is over, drop(work_tx)
MainDrop ==
    /\ mainPc = "walk"
    /\ mainPc' = "join"
    /\ UNCHANGED <<chan, sent, wstate, handledBy, incremented>>
    /\ WorkUnchanged

\* lines 251-257: every JoinHandle is awaited, its result ignored; main
\* returns Ok
MainJoin ==
    /\ mainPc = "join"
    /\ Gone = Workers
    /\ mainPc' = "finished"
    /\ UNCHANGED <<chan, sent, wstate, handledBy, incremented>>
    /\ WorkUnchanged

\* line 99: work_rx.recv().await gives an item to one receiver
WorkerRecv(w) ==
    /\ wstate[w].st = "recv"
    /\ chan # <<>>
    /\ wstate' = [wstate EXCEPT ![w] = [st |-> "handling", item |-> Head(chan)]]
    /\ handledBy' = [handledBy EXCEPT ![Head(chan)] = @ \cup {w}]
    /\ chan' = Tail(chan)
    /\ UNCHANGED <<mainPc, sent, incremented>>
    /\ WorkUnchanged

\* line 99: recv fails once the channel is closed and empty; the worker
\* returns
WorkerExit(w) ==
    /\ wstate[w].st = "recv"
    /\ chan = <<>>
    /\ mainPc = "join"
    /\ wstate' = [wstate EXCEPT ![w] = [st |-> "exited", item |-> 0]]
    /\ UNCHANGED <<mainPc, chan, sent, handledBy, incremented>>
    /\ WorkUnchanged

\* a worker that counts an item it found a cover for twice
HandleWorkCount_Twice(outcome) ==
    CASE outcome = "Found" -> <<"done", "done">>
      [] outcome = "NotFound" -> <<"no_result_found">>
      [] outcome = "Err" -> <<"errors">>
      [] OTHER -> <<>>

\* lines 100-104 and 148-156: the counter handle_work or worker increments
\* for what search_and_download (and embed_cover) did; none when the task
\* panics
HandleWorkCount(outcome) ==
    CASE outcome = "Found" -> <<"done">>
      [] outcome = "NotFound" -> <<"no_result_found">>
      [] outcome = "Err" -> <<"errors">>
      [] OTHER -> <<>>

\* lines 100-104: handle_work(..).await.  search_and_download returns
\* Found, NotFound or an error, or panics (compare on a cover of height 0,
\* the debug assertion of matches_max_size): the panic ends the task of the
\* worker
HandleWork(w) ==
    /\ wstate[w].st = "handling"
    /\ \E outcome \in {"Found", "NotFound", "Err", "Panic"} :
        /\ incremented' = [incremented EXCEPT ![wstate[w].item] = @ \o HandleWorkCount(outcome)]
        /\ wstate' = [wstate EXCEPT ![w] =
                        IF outcome = "Panic"
                            THEN [st |-> "panicked", item |-> wstate[w].item]
                            ELSE [st |-> "recv", item |-> 0]]
    /\ UNCHANGED <<mainPc, chan, sent, handledBy>>
    /\ WorkUnchanged

(***************************************************************************)
(* SearchOptions::matches_min_size and matches_max_size (cl.rs:105-115)    *)
(* with the width of their arithmetic                                      *)
(***************************************************************************)
\* width in bits of the unsigned integers of the model, standing for the 32
\* bits of u32
Width == 8

\* one more than the largest unsigned integer
Modulus == 2 ^ Width

\* the value kept by an arithmetic operation that wraps
wrapping(x) == x % Modulus

\* whether the exact result of an operation leaves the unsigned range
overflows(x) == x < 0 \/ x >= Modulus

\* no computation done
NoBounds == [called |-> FALSE, ret |-> "none", overflowed |-> FALSE, min_size |-> 0, max_size |-> 0]

\* self.size * self.size_tolerance_prct / 100 (lines 106 and 113), the
\* product wrapped
TolerancePart(size_opt, tolerance) == wrapping(size_opt * tolerance) \div 100

\* lines 106 and 113 in a build that wraps on overflow
WrappedBounds(size_opt, tolerance) ==
    [called |-> TRUE, ret |-> "Ok",
     overflowed |-> \/ overflows(size_opt * tolerance)
                    \/ overflows(size_opt - TolerancePart(size_opt, tolerance))
                    \/ overflows(size_opt + TolerancePart(size_opt, tolerance)),
     min_size |-> wrapping(size_opt - TolerancePart(size_opt, tolerance)),
     max_size |-> wrapping(size_opt + TolerancePart(size_opt, tolerance))]

\* lines 106 and 113: min_size and max_size.  A build with overflow checks
\* panics at the first operation whose result leaves the u32 range, a build
\* without them wraps
ComputeBounds(size_opt, tolerance, checks) ==
    LET w == WrappedBounds(size_opt, tolerance)
    IN  IF checks /\ w.overflowed
            THEN [w EXCEPT !.ret = "Panic", !.min_size = 0, !.max_size = 0]
            ELSE w

\* matches_min_size and matches_max_size called for a cover
SizeBounds ==
    /\ ~sizeBounds.called
    /\ sizeBounds' = ComputeBounds(cliSize, cliTol, overflowChecks)
    /\ UNCHANGED <<cliSize, cliTol, overflowChecks>>
    /\ UNCHANGED <<coreVars, unit3Vars>>
    /\ UNCHANGED <<normVars, pathVars, walkVars, pxVars, liveVars, workVars>>

(***************************************************************************)
(* Initial values of the groups of variables                               *)
(***************************************************************************)
\* no task has called anything yet
TasksIdle ==
    /\ pc = [t \in Tasks |-> "idle"]
    /\ tkey = [t \in Tasks |-> "k1"]
    /\ tret = [t \in Tasks |-> NoRet]

\* the client's variables before any client is built
HttpParked ==
    /\ top = [t \in Tasks |-> "none"]
    /\ now = 0
    /\ rl = [kind |-> "None", start |-> 0, count |-> 0]
    /\ wakeAt = [t \in Tasks |-> 0]
    /\ gets = [k \in Keys |-> 0]
    /\ issuedAt = [u \in 0..MaxTime |-> 0]
    /\ windows = {}
    /\ slept = [t \in Tasks |-> NoWait]

\* an empty cache nobody uses
CacheParked ==
    /\ db = [k \in Keys |-> NoEntry]
    /\ db0 = db
    /\ busy = {}
    /\ lockOwner = [k \in Keys |-> NoTask]
    /\ produced = [k \in Keys |-> 0]
    /\ seenAtEnter = [t \in Tasks |-> 0]
    /\ sysTime = 0

\* a client just built by SourceHttpClient::new
NewClient(limited) ==
    /\ top = [t \in Tasks |-> "none"]
    /\ now = 0
    /\ rl = NewRateLimitState(limited, 0)
    /\ wakeAt = [t \in Tasks |-> 0]
    /\ gets = [k \in Keys |-> 0]
    /\ issuedAt = [u \in 0..MaxTime |-> 0]
    /\ windows = IF limited THEN {0} ELSE {}
    /\ slept = [t \in Tasks |-> NoWait]

\* no comparison is under way
CmpParked ==
    /\ ca = Cover(<<1, 1>>, TRUE, "Jpeg", TRUE, Relevance(FALSE, TRUE, FALSE), 0, "ka")
    /\ cb = ca
    /\ cc = ca
    /\ cmode = ReferenceMode
    /\ cres = NoRes

\* search_and_download has just been called
SearchParked ==
    /\ sphase = "spawn"
    /\ spawnIdx = 1
    /\ stask = [s \in Sources |-> "none"]
    /\ sfound = [s \in Sources |-> <<>>]
    /\ merged = <<>>
    /\ results = <<>>
    /\ refHash = NoHash
    /\ sreference = NoReference
    /\ attempts = <<>>
    /\ sret = NoStatus
    /\ exitCode = NoExit

\* a cache is open and nothing was asked of it
LifeParked ==
    /\ copen = TRUE
    /\ cret = NoGet
    /\ written = [k \in Keys |-> NoWrite]
    /\ compacted = FALSE

\* no client was ever built: SOURCE_CACHES is empty
RegParked ==
    /\ rpc = [t \in Tasks |-> "idle"]
    /\ readers = {}
    /\ writer = NoTask
    /\ registry = NoPair
    /\ dbOpens = NoPair
    /\ cpair = [t \in Tasks |-> NoPair]

\* find_reference_hash has tried no candidate
RefParked == refTried = <<>>

\* no size filter is being decided
SizeParked ==
    /\ optSize = 0
    /\ optTol = 0
    /\ hint = <<0, 0>>
    /\ kept = "none"

\* no relevance is being compared
RelParked ==
    /\ ra = Relevance(FALSE, FALSE, FALSE)
    /\ rb = Relevance(FALSE, FALSE, FALSE)
    /\ rc = Relevance(FALSE, FALSE, FALSE)
    /\ rord = NoRes

\* no Discogs result is being read
DiscogsParked ==
    /\ cover_image = <<>>
    /\ dims = NoDims
    /\ emitted = NoEmitted

\* no iTunes search is running
ItunesParked ==
    /\ itIdx = 0
    /\ itResults = <<>>
    /\ itRet = NoSearchRet

\* no cover is being downloaded
DlParked ==
    /\ coverFmt = "Jpeg"
    /\ outExt = "jpg"
    /\ preserve = FALSE
    /\ dl = NoDownload

NormParked ==
    /\ nin = <<>>
    /\ nout = NoNormalized

PathParked ==
    /\ sin = <<>>
    /\ sout = NoSanitized
    /\ pattern = <<>>
    /\ artist = <<>>
    /\ album = <<>>
    /\ path = NoPath

WalkParked ==
    /\ wtree = NoTree
    /\ wdirs = <<>>
    /\ yielded = <<>>
    /\ wstats = NoStats
    /\ wdone = FALSE

PxParked ==
    /\ sizeKnown = TRUE
    /\ actual = <<0, 0>>

LiveParked ==
    /\ zeroWait = [t \in Tasks |-> FALSE]

WorkParked ==
    /\ mainPc = "idle"
    /\ chan = <<>>
    /\ sent = 0
    /\ wstate = [w \in Workers |-> [st |-> "recv", item |-> 0]]
    /\ handledBy = [i \in Items |-> {}]
    /\ incremented = [i \in Items |-> <<>>]

ArithParked ==
    /\ cliSize = 0
    /\ cliTol = 0
    /\ overflowChecks = FALSE
    /\ sizeBounds = NoBounds

Unit3Parked == SizeParked /\ RelParked /\ DiscogsParked /\ ItunesParked /\ DlParked

ToolParked == NormParked /\ PathParked /\ WalkParked /\ PxParked /\ LiveParked /\ WorkParked /\ ArithParked

UnitParked == Unit3Parked /\ ToolParked

CoreParked ==
    /\ TasksIdle /\ CacheParked /\ HttpParked /\ CmpParked /\ SearchParked
    /\ LifeParked /\ RegParked /\ RefParked

RestParked == CmpParked /\ SearchParked /\ LifeParked /\ RegParked /\ RefParked /\ UnitParked

(***************************************************************************)
(* Specification Spec: NTasks tasks call get_or_set on one open cache.     *)
(* The cache file may hold entries of an earlier run.                      *)
(***************************************************************************)
Init ==
    /\ TasksIdle
    /\ HttpParked
    /\ RestParked
    /\ db \in [Keys -> {NoEntry, from_uncompressed(<<1>>, 0)}]
    /\ db0 = db
    /\ busy = {}
    /\ lockOwner = [k \in Keys |-> NoTask]
    /\ produced = [k \in Keys |-> 0]
    /\ seenAtEnter = [t \in Tasks |-> 0]
    /\ sysTime = 0

Next ==
    \/ \E t \in Tasks, k \in Keys : GetOrSetEnter(t, k)
    \/ \E t \in Tasks : GetOrSetLocked(t)
    \/ \E t \in Tasks : GetOrSetSetterDone(t)
    \/ ClockTick

Spec == Init /\ [][Next]_vars

(***************************************************************************)
(* Specification SpecCache: the life of one cache file, which may hold an  *)
(* entry of an earlier run, possibly with a created_at that is no time.    *)
(***************************************************************************)
FileEntries == {NoEntry} \cup {from_uncompressed(<<1>>, secs) : secs \in 0..BadSecs}

InitCache ==
    /\ TasksIdle
    /\ HttpParked
    /\ CmpParked
    /\ SearchParked
    /\ RegParked
    /\ RefParked
    /\ UnitParked
    /\ \E e \in FileEntries : db = [k \in Keys |-> IF k = "k1" THEN e ELSE NoEntry]
    /\ db0 = db
    /\ busy = {}
    /\ lockOwner = [k \in Keys |-> NoTask]
    /\ produced = [k \in Keys |-> 0]
    /\ seenAtEnter = [t \in Tasks |-> 0]
    /\ sysTime \in 0..MaxSecs
    /\ copen = FALSE
    /\ cret = NoGet
    /\ written = [k \in Keys |-> NoWrite]
    /\ compacted = FALSE

NextCache ==
    \/ OpenCache
    \/ CloseCache
    \/ \E k \in Keys, v \in Vals : CacheSet(k, v)
    \/ \E kv1, kv2 \in Keys \X Vals : CacheSetMulti(kv1, kv2)
    \/ \E k \in Keys : CacheGet(k)
    \/ SetSystemTime

SpecCache == InitCache /\ [][NextCache]_vars

(***************************************************************************)
(* Specification SpecRate: NRateTasks tasks send requests through one      *)
(* SourceHttpClient built at instant 0.                                    *)
(***************************************************************************)
InitRate ==
    /\ TasksIdle
    /\ CacheParked
    /\ RestParked
    /\ \E limited \in BOOLEAN : NewClient(limited)

NextRate ==
    \/ \E t \in RateTasks : DownloadCover(t, "k1")
    \/ \E t \in RateTasks : Wait(t)
    \/ \E t \in RateTasks : Wake(t)
    \/ \E t \in RateTasks : DownloadCoverSend(t)
    \/ \E t \in RateTasks : head(t, "k1")
    \/ Tick

SpecRate == InitRate /\ [][NextRate]_vars

(***************************************************************************)
(* Specification SpecRateLive: NRateTasks tasks send requests again and    *)
(* again through one rate-limited client.  Time advances, a task that can  *)
(* take a step of its wait takes it, a sleep that is over returns, a       *)
(* request that may be sent is sent; no task has to start a request.       *)
(***************************************************************************)
InitRateLive ==
    /\ TasksIdle
    /\ CacheParked
    /\ CmpParked /\ SearchParked /\ LifeParked /\ RegParked /\ RefParked
    /\ Unit3Parked /\ NormParked /\ PathParked /\ WalkParked /\ PxParked /\ WorkParked /\ ArithParked
    /\ top = [t \in Tasks |-> "none"]
    /\ now = LiveNow
    /\ rl = NewRateLimitState(TRUE, LiveNow)
    /\ wakeAt = [t \in Tasks |-> 0]
    /\ gets = [k \in Keys |-> 0]
    /\ issuedAt = [u \in 0..MaxTime |-> 0]
    /\ windows = {}
    /\ slept = [t \in Tasks |-> NoWait]
    /\ zeroWait = [t \in Tasks |-> FALSE]

NextRateLive ==
    \/ \E t \in RateTasks : DownloadCover(t, "k1")
    \/ \E t \in RateTasks : LiveWait(t)
    \/ \E t \in RateTasks : Wake(t)
    \/ \E t \in RateTasks : LiveSend(t)
    \/ LiveTick

FairRateLive ==
    /\ WF_vars(LiveTick)
    /\ \A t \in RateTasks :
        WF_vars(LiveWait(t)) /\ WF_vars(Wake(t)) /\ WF_vars(LiveSend(t))

SpecRateLive == InitRateLive /\ [][NextRateLive]_vars /\ FairRateLive

(***************************************************************************)
(* Specification SpecApi: NRateTasks tasks call get_api once each on one   *)
(* client; the API cache may hold entries of an earlier run.               *)
(***************************************************************************)
InitApi ==
    /\ TasksIdle
    /\ db \in [Keys -> {NoEntry, from_uncompressed(<<1>>, 0)}]
    /\ db0 = db
    /\ busy = {}
    /\ lockOwner = [k \in Keys |-> NoTask]
    /\ produced = [k \in Keys |-> 0]
    /\ seenAtEnter = [t \in Tasks |-> 0]
    /\ sysTime = 0
    /\ RestParked
    /\ \E limited \in BOOLEAN : NewClient(limited)

NextApi ==
    \/ \E t \in RateTasks, k \in Keys : GetApi(t, k)
    \/ \E t \in RateTasks : Wait(t)
    \/ \E t \in RateTasks : Wake(t)
    \/ \E t \in RateTasks : GetApiSend(t)
    \/ Tick

SpecApi == InitApi /\ [][NextApi]_vars

(***************************************************************************)
(* Specification SpecCompare: compare applied both ways to every pair of   *)
(* covers, in every mode.                                                  *)
(***************************************************************************)
InitCompare ==
    /\ TasksIdle
    /\ CacheParked
    /\ HttpParked
    /\ \/ /\ cmode \in KeylessModes
          /\ ca \in CoversWithKeys({"ka"})
          /\ cb \in CoversWithKeys({"ka"})
       \/ /\ cmode = SearchMode(TargetSize, TheReference)
          /\ ca \in CoversWithKeys(CoverKeys)
          /\ cb \in CoversWithKeys(CoverKeys)
    /\ cc = ca
    /\ cres = NoRes
    /\ SearchParked
    /\ LifeParked
    /\ RegParked
    /\ RefParked
    /\ UnitParked

NextCompare == ComparePair

SpecCompare == InitCompare /\ [][NextCompare]_vars

(***************************************************************************)
(* Specification SpecCompare3: compare applied to every triple of covers.  *)
(***************************************************************************)
InitCompare3 ==
    /\ TasksIdle
    /\ CacheParked
    /\ HttpParked
    /\ cmode \in KeylessModes
    /\ ca \in TripleCovers
    /\ cb \in TripleCovers
    /\ cc \in TripleCovers
    /\ cres = NoRes
    /\ SearchParked
    /\ LifeParked
    /\ RegParked
    /\ RefParked
    /\ UnitParked

NextCompare3 == CompareTriple

SpecCompare3 == InitCompare3 /\ [][NextCompare3]_vars

(***************************************************************************)
(* Specification SpecSearch: one call of search_and_download by the sacad  *)
(* binary, with NSources sources requested.                                *)
(***************************************************************************)
InitSearch ==
    /\ TasksIdle
    /\ CacheParked
    /\ HttpParked
    /\ CmpParked
    /\ SearchParked
    /\ LifeParked
    /\ RegParked
    /\ RefParked
    /\ UnitParked

NextSearch ==
    \/ SpawnSource
    \/ \E s \in Sources : SourceSearch(s)
    \/ JoinAll
    \/ FindReference
    \/ SortResults
    \/ Download
    \/ Exit

SpecSearch == InitSearch /\ [][NextSearch]_vars

(***************************************************************************)
(* Specification of concurrent SourceHttpClient::new calls for one source  *)
(***************************************************************************)
InitRegistry ==
    /\ TasksIdle
    /\ CacheParked
    /\ HttpParked
    /\ CmpParked
    /\ SearchParked
    /\ LifeParked
    /\ RegParked
    /\ RefParked
    /\ UnitParked

NextRegistry ==
    \/ \E t \in Tasks : NewClientBuild(t)
    \/ RegStep

SpecRegistry == InitRegistry /\ [][NextRegistry]_vars

(***************************************************************************)
(* Specification of the size filter                                        *)
(***************************************************************************)
InitMinSize ==
    /\ TasksIdle
    /\ CacheParked
    /\ HttpParked
    /\ CmpParked
    /\ SearchParked
    /\ LifeParked
    /\ RegParked
    /\ RefParked
    /\ ToolParked
    /\ RelParked
    /\ DiscogsParked
    /\ ItunesParked
    /\ DlParked
    /\ optSize \in 0..MaxOptSize
    /\ optTol \in Tolerances
    /\ hint \in (0..MaxDim) \X (0..MaxDim)
    /\ kept = "none"

NextMinSize == SizeFilter

SpecMinSize == InitMinSize /\ [][NextMinSize]_vars

(***************************************************************************)
(* Specification of Relevance::cmp                                         *)
(***************************************************************************)
InitRelevance ==
    /\ TasksIdle
    /\ CacheParked
    /\ HttpParked
    /\ CmpParked
    /\ SearchParked
    /\ LifeParked
    /\ RegParked
    /\ RefParked
    /\ ToolParked
    /\ SizeParked
    /\ DiscogsParked
    /\ ItunesParked
    /\ DlParked
    /\ ra \in AllRelevances
    /\ rb \in AllRelevances
    /\ rc \in AllRelevances
    /\ rord = NoRes

NextRelevance == RelevanceCompare

SpecRelevance == InitRelevance /\ [][NextRelevance]_vars

(***************************************************************************)
(* Specification of a result of Discogs::search                            *)
(***************************************************************************)
InitDiscogs ==
    /\ TasksIdle
    /\ CacheParked
    /\ HttpParked
    /\ CmpParked
    /\ SearchParked
    /\ LifeParked
    /\ RegParked
    /\ RefParked
    /\ ToolParked
    /\ SizeParked
    /\ RelParked
    /\ ItunesParked
    /\ DlParked
    /\ cover_image \in Urls
    /\ dims = NoDims
    /\ emitted = NoEmitted

NextDiscogs ==
    \/ ParseImageDimensions
    \/ DiscogsResult

SpecDiscogs == InitDiscogs /\ [][NextDiscogs]_vars

(***************************************************************************)
(* Specification of Itunes::search                                         *)
(***************************************************************************)
InitItunes ==
    /\ TasksIdle
    /\ CacheParked
    /\ HttpParked
    /\ CmpParked
    /\ SearchParked
    /\ LifeParked
    /\ RegParked
    /\ RefParked
    /\ ToolParked
    /\ UnitParked

NextItunes ==
    \/ ItunesSearchRequest
    \/ ItunesProbe
    \/ ItunesReturn

SpecItunes == InitItunes /\ [][NextItunes]_vars

(***************************************************************************)
(* Specification of Cover::download                                        *)
(***************************************************************************)
InitDownload ==
    /\ TasksIdle
    /\ CacheParked
    /\ HttpParked
    /\ CmpParked
    /\ SearchParked
    /\ LifeParked
    /\ RegParked
    /\ RefParked
    /\ ToolParked
    /\ RelParked
    /\ DiscogsParked
    /\ ItunesParked
    /\ optSize \in 1..MaxOptSize
    /\ optTol \in DlTolerances
    /\ hint \in (1..MaxDim) \X (1..MaxDim)
    /\ kept = "none"
    /\ coverFmt \in Formats
    /\ outExt \in Extensions
    /\ preserve \in BOOLEAN
    /\ dl = NoDownload

NextDownload == CoverDownload

SpecDownload == InitDownload /\ [][NextDownload]_vars

(***************************************************************************)
(* Specification of the download of a cover that passed the size filter:   *)
(* the filter sees the hint of the size, download the size it resolves     *)
(***************************************************************************)
InitKept ==
    /\ CoreParked
    /\ RelParked
    /\ DiscogsParked
    /\ ItunesParked
    /\ NormParked
    /\ PathParked
    /\ WalkParked
    /\ WorkParked /\ ArithParked
    /\ LiveParked
    /\ optSize \in 1..MaxOptSize
    /\ optTol \in DlTolerances
    /\ hint \in (1..MaxDim) \X (1..MaxDim)
    /\ kept = "none"
    /\ sizeKnown \in BOOLEAN
    /\ actual \in (1..MaxDim) \X (1..MaxDim)
    /\ sizeKnown => actual = hint
    /\ coverFmt = "Jpeg"
    /\ outExt = "jpg"
    /\ preserve = FALSE
    /\ dl = NoDownload

NextKept == SizeFilter \/ DownloadKept

SpecKept == InitKept /\ [][NextKept]_vars

(***************************************************************************)
(* Specification of normalize                                              *)
(***************************************************************************)
InitNormalize ==
    /\ CoreParked
    /\ Unit3Parked
    /\ WorkParked /\ ArithParked
    /\ LiveParked
    /\ PxParked
    /\ WalkParked
    /\ PathParked
    /\ nin \in UNION {[1..n -> NormChars] : n \in 0..MaxStrLen}
    /\ nout = NoNormalized

NextNormalize == Normalize

SpecNormalize == InitNormalize /\ [][NextNormalize]_vars

(***************************************************************************)
(* Specifications of sanitize_for_path and of to_path_buf                  *)
(***************************************************************************)
InitSanitize ==
    /\ CoreParked
    /\ Unit3Parked
    /\ WorkParked /\ ArithParked
    /\ LiveParked
    /\ PxParked
    /\ WalkParked
    /\ NormParked
    /\ sin \in UNION {[1..n -> SanChars] : n \in 0..MaxStrLen}
    /\ sout = NoSanitized
    /\ pattern = <<>>
    /\ artist = <<>>
    /\ album = <<>>
    /\ path = NoPath

NextSanitize == Sanitize

SpecSanitize == InitSanitize /\ [][NextSanitize]_vars

InitPattern ==
    /\ CoreParked
    /\ Unit3Parked
    /\ WorkParked /\ ArithParked
    /\ LiveParked
    /\ PxParked
    /\ WalkParked
    /\ NormParked
    /\ sin = <<>>
    /\ sout = NoSanitized
    /\ pattern \in Patterns
    /\ artist \in Tags
    /\ album \in Tags
    /\ path = NoPath

NextPattern == ToPathBuf

SpecPattern == InitPattern /\ [][NextPattern]_vars

(***************************************************************************)
(* Specification of the walk of a library                                  *)
(***************************************************************************)
InitWalk ==
    /\ CoreParked
    /\ Unit3Parked
    /\ WorkParked /\ ArithParked
    /\ LiveParked
    /\ PxParked
    /\ NormParked
    /\ PathParked
    /\ wtree \in Trees
    /\ wdirs = <<1>>
    /\ yielded = <<>>
    /\ wstats = NoStats
    /\ wdone = FALSE

NextWalk == WalkNext

SpecWalk == InitWalk /\ [][NextWalk]_vars

(***************************************************************************)
(* Specification of sacad_r: main, the channel and the workers             *)
(***************************************************************************)
InitWorkers ==
    /\ CoreParked
    /\ Unit3Parked
    /\ NormParked /\ PathParked /\ WalkParked /\ PxParked /\ LiveParked /\ ArithParked
    /\ mainPc = "walk"
    /\ chan = <<>>
    /\ sent = 0
    /\ wstate = [w \in Workers |-> [st |-> "recv", item |-> 0]]
    /\ handledBy = [i \in Items |-> {}]
    /\ incremented = [i \in Items |-> <<>>]

NextWorkers ==
    \/ MainSend
    \/ MainDrop
    \/ MainJoin
    \/ \E w \in Workers : WorkerRecv(w)
    \/ \E w \in Workers : WorkerExit(w)
    \/ \E w \in Workers : HandleWork(w)

SpecWorkers == InitWorkers /\ [][NextWorkers]_vars

(***************************************************************************)
(* Specification of the arithmetic of the size bounds: any size and any    *)
(* tolerance the command line accepts, in either build                     *)
(***************************************************************************)
InitArith ==
    /\ CoreParked
    /\ Unit3Parked
    /\ NormParked /\ PathParked /\ WalkParked /\ PxParked /\ LiveParked /\ WorkParked
    /\ cliSize \in 0..(Modulus - 1)
    /\ cliTol \in 0..(Modulus - 1)
    /\ overflowChecks \in BOOLEAN
    /\ sizeBounds = NoBounds

NextArith == SizeBounds

SpecArith == InitArith /\ [][NextArith]_vars


(***************************************************************************)
(* Claims on Cache::get_or_set                                             *)
(***************************************************************************)
\* the callers of get_or_set(k, ..) that have returned
Returned(k) == {t \in Tasks : pc[t] = "done" /\ tkey[t] = k}

\* no call on k has returned an error (no producer and no database failure)
NoFailureOn(k) == \A t \in Returned(k) : tret[t].kind = "Ok"

C2_GetApiSingleFlight ==
    \A k \in Keys :
        db0[k] = NoEntry =>
            /\ gets[k] <= 1
            /\ \A t1, t2 \in Returned(k) :
                   (tret[t1].kind = "Ok" /\ tret[t2].kind = "Ok")
                       => tret[t1] = tret[t2]

(***************************************************************************)
(* Claims on the rate limit                                                *)
(***************************************************************************)
RECURSIVE Issued(_, _)
\* the number of requests let through at the instants lo..hi
Issued(lo, hi) ==
    IF lo > hi \/ lo > MaxTime
        THEN 0
        ELSE issuedAt[lo] + Issued(lo + 1, hi)

\* C3: over any interval of duration `time`, at any offset, the number of
\* rate-limited requests let through by wait() is at most max_count.
C3_AnyInterval ==
    rl.kind = "Window" =>
        \A u \in 0..MaxTime : Issued(u, u + RlLength - 1) <= RlLimit

\* C4: a request that arrives when the window is full is let through after
\* waiting at most `time` in total, whatever the number of other requests.
C4_WaitAtMostTime ==
    \A t \in Tasks : slept[t] <= RlLength

\* C4 (amended): each sleep that wait_for orders lasts at most `time`, and a
\* request that has already slept is ordered a further sleep of positive
\* length only when a window that started after its deadline is already
\* full of other requests.
C4_EachSleepBounded ==
    [][\A t \in Tasks :
           (pc[t] = "wait" /\ pc'[t] = "sleep") =>
               /\ wakeAt'[t] - now >= 0
               /\ wakeAt'[t] - now <= RlLength
               /\ (slept[t] # NoWait /\ wakeAt'[t] - now > 0) =>
                      (rl.start > wakeAt[t] /\ rl.count = RlLimit)]_vars

\* a request that was told to wait, slept, and was then let through
C4_Witness ==
    \E t \in Tasks : pc[t] = "send" /\ slept[t] # NoWait /\ slept[t] > 0

(***************************************************************************)
(* Claims on compare                                                       *)
(***************************************************************************)
\* C5: compare is transitive: compare(a,b) = Greater and compare(b,c) =
\* Greater imply compare(a,c) = Greater, and likewise with Equal.
C5_Transitive ==
    /\ (cres.ab = "Greater" /\ cres.bc = "Greater") => cres.ac = "Greater"
    /\ (cres.ab = "Equal" /\ cres.bc = "Equal") => cres.ac = "Equal"

\* C6: compare is antisymmetric: compare(b, a) is the reverse of
\* compare(a, b), in every mode.
C6_Antisymmetric ==
    cres # NoRes => cres.ba = Reverse(cres.ab)

\* a pair that a step after the aspect ratio decides, in Search mode with a
\* reference, compared both ways
C6_Witness ==
    /\ cmode.kind = "Search"
    /\ cmode.reference.some
    /\ ~ratio_gap(ca, cb)
    /\ cres.ab = "Greater"
    /\ cres.ba = "Less"

\* the cover with the property is preferred
Prefer(a_has, b_has) ==
    IF a_has /\ ~b_has THEN "Greater"
    ELSE IF b_has /\ ~a_has THEN "Less"
    ELSE Undecided

\* the cover with the lower value is preferred
PreferLower(xa, xb) == Prefer(xa < xb, xb < xa)

\* the relevance order: less unrelated_risk, then more only_front_covers,
\* then less fuzzy
RelevanceScore(r) ==
    (IF r.unrelated_risk THEN 0 ELSE 4) + (IF r.only_front_covers THEN 2 ELSE 0)
        + (IF r.fuzzy THEN 0 ELSE 1)

Avg(c) == (c.w + c.h) \div 2

\* ratio(a) < ratio(b) with ratio(c) = |w/h - 1|
LowerRatio(a, b) == AbsDiff(a.w, a.h) * b.h < AbsDiff(b.w, b.h) * a.h

\* |ratio(a) - ratio(b)| > 0.15
RatioBeyond(a, b) ==
    20 * AbsDiff(AbsDiff(a.w, a.h) * b.h, AbsDiff(b.w, b.h) * a.h) > 3 * a.h * b.h

\* the fixed sequence of steps of the comparator
StepSequence(a, b, mode) ==
    LET search == mode.kind = "Search"
        target == mode.size
    IN  << IF RatioBeyond(a, b)
               THEN Prefer(LowerRatio(a, b), LowerRatio(b, a)) ELSE Undecided,
           IF search /\ mode.reference.some
               THEN Prefer(similar_to_ref(a, mode.reference),
                           similar_to_ref(b, mode.reference))
               ELSE Undecided,
           IF search THEN Prefer(Avg(a) >= target, Avg(b) >= target) ELSE Undecided,
           IF search /\ Avg(a) < target /\ Avg(b) < target
               THEN PreferLower(Avg(b), Avg(a)) ELSE Undecided,
           PreferLower(RelevanceScore(b.relevance), RelevanceScore(a.relevance)),
           PreferLower(a.rank, b.rank),
           Prefer(a.sizeKnown, b.sizeKnown),
           Prefer(a.fmtKnown, b.fmtKnown),
           IF search
               THEN PreferLower(AbsDiff(Avg(a), target), AbsDiff(Avg(b), target))
               ELSE Undecided,
           Prefer(a.fmt = "Png", b.fmt = "Png"),
           Prefer(LowerRatio(a, b), LowerRatio(b, a)) >>

\* C7: compare(a, b, mode) is the result of the first deciding step of the
\* fixed sequence (aspect ratio beyond 0.15; in Search mode reference
\* similarity, exactly one average >= target, both below and unequal;
\* relevance; rank; Known size; Known format; in Search mode smaller
\* |avg - target|; PNG; lower ratio), else Equal; Reference mode reads no
\* target size.
C7_FirstDecidingStep ==
    cres # NoRes =>
        /\ cres.ab = FirstDecided(StepSequence(ca, cb, cmode), "Equal")
        /\ cres.ba = FirstDecided(StepSequence(cb, ca, cmode), "Equal")

\* a pair in Search mode that only the distance to the target decides, and a
\* pair whose average equals the target while the other is below
C7_Witness ==
    /\ cres # NoRes
    /\ cmode.kind = "Search"
    /\ \/ /\ \A i \in 1..8 : StepSequence(ca, cb, cmode)[i] = Undecided
          /\ StepSequence(ca, cb, cmode)[9] # Undecided
       \/ /\ Avg(ca) = cmode.size
          /\ Avg(cb) < cmode.size
          /\ StepSequence(ca, cb, cmode)[1] = Undecided
          /\ StepSequence(ca, cb, cmode)[2] = Undecided

(***************************************************************************)
(* Claims on search_and_download                                           *)
(***************************************************************************)
SomeDownloadSucceeded == \E i \in 1..Len(attempts) : attempts[i].ok

Failed(s) == stask[s] \in {"skipped", "err", "panic"}

\* C8: search_and_download returns Found if and only if some download
\* attempt succeeded and NotFound otherwise, in particular when every
\* source returned an empty list; the process exits with 0 on Found and
\* with 1 on NotFound.
C8_FoundIffDownloaded ==
    /\ sphase \in {"returned", "exited"} =>
        /\ sret.kind = "Ok"
        /\ sret.status = "Found" <=> SomeDownloadSucceeded
        /\ sret.status = "NotFound" <=> ~SomeDownloadSucceeded
        /\ (\A s \in Sources : sfound[s] = <<>>) => sret.status = "NotFound"
    /\ sphase = "exited" =>
        /\ sret.status = "Found" => exitCode = 0
        /\ sret.status = "NotFound" => exitCode = 1

\* the process has exited with 0 after a failed and a successful download
C8_Witness ==
    /\ sphase = "exited"
    /\ sret = OkStatus("Found")
    /\ exitCode = 0
    /\ Len(attempts) >= 2
    /\ attempts[Len(attempts)].ok

\* C9: the download loop attempts the covers in sorted order, one at a
\* time: each attempt is on the cover that follows the covers attempted so
\* far in the sorted list, all of which failed; no download is attempted
\* after a success.
C9_DownloadInOrder ==
    [][attempts' # attempts =>
        /\ \E ok \in BOOLEAN :
            attempts' = Append(attempts, [cover |-> results[Len(attempts) + 1], ok |-> ok])
        /\ \A i \in 1..Len(attempts) : ~attempts[i].ok
        /\ results' = results]_vars

\* the third cover of the sorted list downloaded after two failures
C9_Witness ==
    /\ Len(attempts) = 3
    /\ ~attempts[1].ok
    /\ ~attempts[2].ok
    /\ attempts[3].ok
    /\ \A i \in 1..3 : attempts[i].cover = results[i]

\* C10: when the client of a source cannot be built, or its search task
\* returns an error or panics, the merged list holds every cover returned
\* by every other source, and search_and_download returns no error.
C10_FailureIsolated ==
    \A f \in Sources :
        (Failed(f) /\ sphase \notin {"spawn", "join"}) =>
            /\ \A s \in Sources \ {f} :
                stask[s] = "ok" =>
                    \A i \in 1..Len(sfound[s]) :
                        \E j \in 1..Len(merged) : merged[j] = sfound[s][i]
            /\ sphase \in {"returned", "exited"} => sret.kind = "Ok"

\* the first source failed, a later one returned a cover, which was merged
\* and downloaded
C10_Witness ==
    /\ sphase = "returned"
    /\ Failed(1)
    /\ \E s \in Sources : stask[s] = "ok" /\ Len(sfound[s]) > 0 /\ sfound[s][1] = merged[1]
    /\ sret = OkStatus("Found")

\* the sort of search_and_download has completed
Sorted == sphase \in {"download", "returned", "exited"}

SameSizeAndFormat(x, y) == x.w = y.w /\ x.h = y.h /\ x.fmt = y.fmt

\* C11: in the sorted list of search_and_download, when a reference hash
\* exists, a cover whose stored hash is similar to the reference precedes
\* every cover of identical size and format that is not similar to it,
\* whatever their relevance and rank.
C11_SimilarFirst ==
    (Sorted /\ sreference.some) =>
        \A i, j \in 1..Len(results) :
            ( /\ similar_to_ref(results[i], sreference)
              /\ ~similar_to_ref(results[j], sreference)
              /\ SameSizeAndFormat(results[i], results[j]) ) => i < j

(***************************************************************************)
(* Claims on the life of a cache                                           *)
(***************************************************************************)
\* C12: after set(k, v), or set_multi with (k, v), get(k) returns Some(v)
\* with the same bytes, on the same instance and after the file is opened
\* again within max_age; a later set of the key replaces the value.
C12_RoundTrip ==
    copen =>
        \A k \in Keys :
            written[k] # NoWrite =>
                get(db, k) = [ok |-> TRUE, some |-> TRUE, data |-> written[k].v]

\* a value set twice is read back after the file was opened again
C12_Witness ==
    /\ copen
    /\ \E k \in Keys :
        /\ db0[k] # NoEntry
        /\ written[k] # NoWrite
        /\ written[k].at < sysTime
        /\ cret = [key |-> k, kind |-> "Some", data |-> <<2, 2>>, age |-> sysTime - written[k].at]

\* C13: on open, maintenance removes every entry whose age exceeds max_age
\* and every entry whose created_at is no time, keeps every entry whose
\* age is between 0 and max_age, and compacts the database if and only if
\* an entry was removed.
C13_Maintenance ==
    [][(~copen /\ copen') =>
        /\ \A k \in Keys :
            /\ (db[k] # NoEntry /\ (db[k].created_at = BadSecs
                                    \/ sysTime - db[k].created_at > MaxAge))
                  => db'[k] = NoEntry
            /\ (db[k] # NoEntry /\ db[k].created_at # BadSecs
                  /\ sysTime - db[k].created_at >= 0
                  /\ sysTime - db[k].created_at <= MaxAge)
                  => db'[k] = db[k]
        /\ compacted' <=> (\E k \in Keys : db[k] # NoEntry /\ db'[k] = NoEntry)]_vars

\* an open that removed the old entry of a key, kept the entry of max_age
\* of another and compacted
C13_Witness ==
    /\ copen
    /\ compacted
    /\ cret = NoGet
    /\ \E k1, k2 \in Keys :
        /\ db0[k1] # NoEntry /\ db[k1] = NoEntry /\ written[k1] = NoWrite
        /\ db[k2] # NoEntry /\ sysTime - db[k2].created_at = MaxAge

\* C14: get returns Some only for a live entry: an entry whose age exceeds
\* max_age is not returned by get while the cache is open.
C14_GetOnlyLive ==
    cret.kind = "Some" => cret.age <= MaxAge

(***************************************************************************)
(* Further claims on Cache::get_or_set                                     *)
(***************************************************************************)
\* C15: get_or_set on a key that is present returns the stored value (or
\* the error of the database read), never awaits the producer and leaves
\* the stored value and its creation time unchanged.
C15_HitLeavesEntry ==
    [][\A t \in Tasks :
        (pc[t] = "lock" /\ pc'[t] # "lock" /\ get(db, tkey[t]).some) =>
            /\ pc'[t] = "done"
            /\ tret'[t] \in {Ok(get(db, tkey[t]).data), Err("Database")}
            /\ produced' = produced
            /\ db' = db]_vars

\* a call returned the value stored by an earlier run, after the clock moved
C15_Witness ==
    \E t \in Tasks :
        /\ pc[t] = "done"
        /\ db0[tkey[t]] # NoEntry
        /\ tret[t] = Ok(<<1>>)
        /\ produced[tkey[t]] = 0
        /\ db[tkey[t]] = db0[tkey[t]]
        /\ sysTime > db[tkey[t]].created_at

\* the producers of key k in progress
Producing(k) == {t \in Tasks : pc[t] = "setter" /\ tkey[t] = k}

\* C16 as stated: at most one producer of a key is in progress at any
\* instant, and produce is invoked at most once while another caller for
\* the key is waiting.
C16_OncePerWait ==
    /\ \A k \in Keys : Cardinality(Producing(k)) <= 1
    /\ \A t \in Tasks : pc[t] = "lock" => produced[tkey[t]] - seenAtEnter[t] <= 1

\* C16 amended: at most one producer of a key is in progress at any
\* instant, and a further producer is started for the key only after a call
\* on it returned an error (its producer or a database operation failed).
C16_Serialized ==
    \A k \in Keys :
        /\ Cardinality(Producing(k)) <= 1
        /\ produced[k] <= 1 + Cardinality({t \in Returned(k) : tret[t].kind = "Err"})

\* a second producer runs after the first failed, a third caller waiting
C16_Witness ==
    \E k \in Keys, t \in Tasks :
        /\ produced[k] = 2
        /\ Cardinality(Producing(k)) = 1
        /\ pc[t] = "lock" /\ tkey[t] = k /\ seenAtEnter[t] = 0

\* C17: get_or_set calls on distinct keys do not block each other: a caller
\* whose key's lock is free acquires it and a pending producer completes,
\* whatever the locks of the other keys.
C17_DistinctKeysParallel ==
    \A t \in Tasks :
        /\ (pc[t] = "lock" /\ lockOwner[tkey[t]] = NoTask) => ENABLED GetOrSetLocked(t)
        /\ pc[t] = "setter" => ENABLED GetOrSetSetterDone(t)

\* while the producer of a key is pending, a call on another key that
\* started later has run its producer and returned its value
C17_Witness ==
    \E a, b \in Tasks :
        /\ pc[a] = "setter"
        /\ pc[b] = "done"
        /\ tkey[a] # tkey[b]
        /\ db0[tkey[b]] = NoEntry
        /\ tret[b].kind = "Ok"
        /\ produced[tkey[b]] = 1
        /\ seenAtEnter[b] = 0
        /\ db[tkey[b]].created_at > 0
        /\ sysTime = db[tkey[b]].created_at

(***************************************************************************)
(* Claims on the registry of caches                                        *)
(***************************************************************************)
Constructed == {t \in Tasks : rpc[t] = "done"}

InConstruction == {t \in Tasks : rpc[t] \in {"read", "reading", "write", "writing", "thumbs"}}

SamePair == \A t \in Constructed : cpair[t] # NoPair /\ cpair[t] = registry

NoRegistryDeadlock == InConstruction # {} => ENABLED RegStep

\* the open handles of the api database: the registered one and the one of
\* a construction between its two opens
LiveApi ==
    (IF registry # NoPair THEN 1 ELSE 0) + Cardinality({t \in Tasks : rpc[t] = "thumbs"})

\* C18 as stated: each of the two databases of the source is opened at most
\* once per process, every constructed client holds the same pair, and no
\* construction deadlocks on the registry lock.
C18_OpenedOnce ==
    /\ dbOpens.api <= 1
    /\ dbOpens.thumbs <= 1
    /\ SamePair
    /\ NoRegistryDeadlock

\* C18 amended: the databases are never open twice at once and a pair is
\* registered by one open only; a database is opened again only after a
\* construction failed on an open; every constructed client holds the
\* registered pair; no construction deadlocks on the registry lock.
C18_OneLivePair ==
    /\ LiveApi <= 1
    /\ dbOpens.api <= 1 + Cardinality({t \in Tasks : rpc[t] = "failed_open"})
    /\ dbOpens.thumbs <= dbOpens.api
    /\ registry # NoPair => registry = dbOpens
    /\ SamePair
    /\ NoRegistryDeadlock

\* every thread constructed a client and the databases were opened once
C18_Witness ==
    /\ Constructed = Tasks
    /\ dbOpens = [api |-> 1, thumbs |-> 1]
    /\ \A t \in Tasks : cpair[t] = [api |-> 1, thumbs |-> 1]

(***************************************************************************)
(* Claim on SourceHttpClient::head                                         *)
(***************************************************************************)
\* task t calls head in this step
HeadStep(t) ==
    /\ pc[t] \in {"idle", "done"}
    /\ top'[t] = "head"
    /\ <<pc[t], top[t], tret[t]>> # <<pc'[t], top'[t], tret'[t]>>

\* C19: head is not rate-limited: it never waits on the rate-limit window
\* and leaves the window's start and count unchanged, as well as what the
\* rate-limited requests were granted and are waiting for.
C19_HeadNotLimited ==
    [][\A t \in Tasks : HeadStep(t) =>
        /\ pc'[t] = "done"
        /\ tret'[t] # NoRet
        /\ rl' = rl
        /\ <<now, wakeAt, slept, issuedAt, windows>>' = <<now, wakeAt, slept, issuedAt, windows>>]_vars

\* a head has returned while the window is full and a rate-limited request
\* of another task is sleeping for its end
C19_Witness ==
    \E t, u \in Tasks :
        /\ t # u
        /\ top[t] = "head" /\ pc[t] = "done" /\ tret[t] # NoRet
        /\ rl.kind = "Window" /\ rl.count = RlLimit
        /\ pc[u] = "sleep" /\ now < wakeAt[u]

(***************************************************************************)
(* Claim on the phases of search_and_download                              *)
(***************************************************************************)
\* the covers of the merged results that pass the size filter
Filtered == SelectSeq(merged, MatchesMinSize)

RefSelected == sphase = "sort"

\* the merged covers that can be the reference
Candidates == SelectSeq(merged, IsReferenceCover)

\* C21: reference selection considers exactly the merged covers whose
\* relevance is_reference(), in descending order of compare under Reference
\* mode, one at a time; it returns the hash of the first candidate whose
\* hash computation succeeds and tries no later one; it returns no
\* reference iff every candidate failed or there is none.
C21_FirstCandidateInOrder ==
    RefSelected =>
        LET n == Len(refTried)
            triedKeys == {refTried[i].cover.key : i \in 1..n}
        IN  /\ \A i \in 1..n : \E j \in 1..Len(Candidates) : refTried[i].cover = Candidates[j]
            /\ Cardinality(triedKeys) = n
            /\ \A i, j \in 1..n :
                    i < j => compare(refTried[j].cover, refTried[i].cover, ReferenceMode) # "Greater"
            /\ \A i \in 1..n, j \in 1..Len(Candidates) :
                    Candidates[j].key \notin triedKeys =>
                        compare(Candidates[j], refTried[i].cover, ReferenceMode) # "Greater"
            /\ \A i \in 1..n : refTried[i].ok <=> (i = n /\ refHash.some)
            /\ refHash.some => n > 0 /\ refHash.hash = PerceptualHashOf(refTried[n].cover.key)
            /\ ~refHash.some => n = Len(Candidates)
\* C22: the size filter keeps exactly the covers with min(width, height)
\* >= size - floor(size * tolerance / 100), for every size and every
\* tolerance between 0 and 100: the tolerated difference is rounded down,
\* never below zero and never above size.
C22_SizeFilter ==
    kept # "none" =>
        LET m == Min(hint[1], hint[2])
            diff == (optSize * optTol) \div 100
        IN  /\ 100 * diff <= optSize * optTol
            /\ optSize * optTol < 100 * (diff + 1)
            /\ diff <= optSize
            /\ kept = "kept" <=> m + diff >= optSize
            /\ kept = "kept" <=> 100 * (optSize - m) <= optSize * optTol

\* a cover one pixel below a minimum size whose tolerated difference was
\* rounded down is dropped, its larger dimension being large enough
C22_Witness ==
    /\ kept = "dropped"
    /\ (optSize * optTol) % 100 # 0
    /\ Min(hint[1], hint[2]) + 1 = optSize - (optSize * optTol) \div 100
    /\ Max(hint[1], hint[2]) >= optSize
\* the place of the cover of key k in the sequence q
PlaceOf(q, k) == CHOOSE i \in 1..Len(q) : q[i].key = k

\* C23: covers that compare Equal under the Search comparator come in the
\* final sorted list in the same relative order as in the merged list.
C23_TiesKeepOrder ==
    Sorted =>
        \A i, j \in 1..Len(Filtered) :
            ( /\ i < j
              /\ compare(Filtered[i], Filtered[j], SearchMode(TargetSize, sreference)) = "Equal" )
            => PlaceOf(results, Filtered[i].key) < PlaceOf(results, Filtered[j].key)
\* the reference with hash h recorded for key k
WithHash(reference, k, h) ==
    [reference EXCEPT !.hashes = [x \in DOMAIN reference.hashes \cup {k} |->
                                      IF x = k THEN h ELSE reference.hashes[x]]]

\* C24: a failure to compute the perceptual hash of a cover removes only
\* the key of that cover from the map: the cover stays in the result list,
\* is sorted and is a download candidate, and compare treats it as a cover
\* whose hash is not similar to the reference.
C24_HashFailureKeepsCover ==
    (Sorted /\ sreference.some) =>
        /\ Len(results) = Len(Filtered)
        /\ KeysOf(results) = KeysOf(Filtered)
        /\ \A i \in 1..Len(attempts) : attempts[i].cover = results[i]
        /\ sphase \in {"returned", "exited"} =>
                \/ Len(attempts) = Len(results)
                \/ \E i \in 1..Len(attempts) : attempts[i].ok
        /\ \A i \in 1..Len(results) :
                results[i].key \notin DOMAIN sreference.hashes =>
                    /\ ~similar_to_ref(results[i], sreference)
                    /\ \A h \in SUBSET {1, 2, 3}, j \in 1..Len(results) :
                            ~is_similar(h, sreference.reference) =>
                                compare(results[i], results[j], SearchMode(TargetSize, sreference))
                                    = compare(results[i], results[j],
                                              SearchMode(TargetSize,
                                                  WithHash(sreference, results[i].key, h)))

\* with a reference, a cover whose hash could not be computed was
\* downloaded after the download of a cover with a hash had failed
C24_Witness ==
    /\ sreference.some
    /\ Len(attempts) >= 2
    /\ attempts[Len(attempts)].ok
    /\ attempts[Len(attempts)].cover.key \notin DOMAIN sreference.hashes
    /\ attempts[1].cover.key \in DOMAIN sreference.hashes

(***************************************************************************)
(* Claim on Relevance                                                      *)
(***************************************************************************)
\* the order the claim states: less unrelated_risk first, then more
\* only_front_covers, then less fuzzy
StatedOrder(x, y) ==
    IF x.unrelated_risk # y.unrelated_risk
        THEN (IF y.unrelated_risk THEN "Greater" ELSE "Less")
    ELSE IF x.only_front_covers # y.only_front_covers
        THEN (IF x.only_front_covers THEN "Greater" ELSE "Less")
    ELSE IF x.fuzzy # y.fuzzy
        THEN (IF y.fuzzy THEN "Greater" ELSE "Less")
    ELSE "Equal"

\* C25: Relevance is a total order decided first by less unrelated_risk,
\* then by more only_front_covers, then by less fuzzy; is_reference() is
\* true exactly for {fuzzy=false, only_front_covers=true,
\* unrelated_risk=false}, the unique maximum of the order over the 8 values.
C25_RelevanceOrder ==
    rord # NoRes =>
        /\ rord.ab = StatedOrder(ra, rb)
        /\ rord.ab = Reverse(rord.ba)
        /\ rord.ab = "Equal" <=> ra = rb
        /\ (rord.ab = "Greater" /\ rord.bc = "Greater") => rord.ac = "Greater"
        /\ (rord.ab = "Equal" /\ rord.bc = "Equal") => rord.ac = "Equal"
        /\ is_reference(ra) <=> ra = Relevance(FALSE, TRUE, FALSE)
        /\ is_reference(ra) <=> \A r \in AllRelevances \ {ra} : RelevanceCmp(ra, r) = "Greater"
        /\ is_reference(ra) => rord.ab \in {"Greater", "Equal"}

\* a chain of three relevances, the greatest being the reference one, that
\* differ in one field each
C25_Witness ==
    /\ rord = [ab |-> "Greater", ba |-> "Less", bc |-> "Greater", ac |-> "Greater"]
    /\ is_reference(ra)
    /\ rb.fuzzy /\ rb.only_front_covers /\ ~rb.unrelated_risk
    /\ rc.fuzzy /\ ~rc.only_front_covers /\ ~rc.unrelated_risk

(***************************************************************************)
(* Claims on Discogs                                                       *)
(***************************************************************************)
\* C26: every Cover a source pushes has a size hint with width > 0 and
\* height > 0, the Discogs covers whose dimensions are parsed from the URL
\* included.
C26_PositiveSizeHint ==
    \A i \in 1..Len(emitted.covers) :
        emitted.covers[i][1] > 0 /\ emitted.covers[i][2] > 0

\* the first segment with prefix p met from the right, 0 when there is none
FirstFromRight(u, p) ==
    IF \E i \in 1..Len(u) : u[i].prefix = p
        THEN CHOOSE i \in 1..Len(u) :
                u[i].prefix = p /\ \A j \in (i + 1)..Len(u) : u[j].prefix # p
        ELSE 0

\* C27: parse_image_dimensions scans the segments from the right; for each
\* of width and height the first w:NNN / h:NNN segment met from the right
\* wins; it returns Some((w, h)) when both are found with a numeric value
\* and None when either is missing.
C27_FirstFromRightWins ==
    dims.called =>
        LET iw == FirstFromRight(cover_image, "w:")
            ih == FirstFromRight(cover_image, "h:")
        IN  /\ (iw = 0 \/ ih = 0) => dims = NoneDims
            /\ ( /\ iw > 0 /\ ih > 0
                 /\ parse_u32(cover_image[iw].text).some
                 /\ parse_u32(cover_image[ih].text).some )
               => dims = SomeDims(parse_u32(cover_image[iw].text).n, parse_u32(cover_image[ih].text).n)

(***************************************************************************)
(* Claim on Itunes::search                                                 *)
(***************************************************************************)
\* C28: a failure of a single request inside a source search skips only
\* the affected result: when an iTunes HEAD probe fails, the covers already
\* accepted for the other candidate URLs of the search are still returned
\* by the source.
C28_ProbeFailureSkipsOne ==
    itRet # NoSearchRet =>
        \A i \in 1..Len(itResults) :
            \E j \in 1..Len(itRet.covers) : itRet.covers[j] = itResults[i]

(***************************************************************************)
(* Claims on Cover::download                                               *)
(***************************************************************************)
\* the format the extension of the output path stands for, JPEG by default
StatedOutputFormat ==
    IF outExt \in {"png", "PNG"} THEN "Png" ELSE "Jpeg"

\* C29: need_format_change = (cover_format # output_format) and not
\* preserve_format; need_resize = max(width, height) > size +
\* floor(size * tolerance / 100); the file is decoded and saved as
\* output_format iff need_format_change or need_resize, byte-copied
\* otherwise; it is written to the output path with the canonical extension
\* of the cover iff preserve_format is set, the formats differ and no
\* resize is needed, to the unmodified output path otherwise.
C29_DownloadActions ==
    dl.decided =>
        LET differ == coverFmt # StatedOutputFormat
            maxDim == Max(hint[1], hint[2])
        IN  /\ dl.format_change <=> (differ /\ ~preserve)
            /\ dl.resize <=> (100 * maxDim > (100 * optSize + optSize * optTol)
                                                - ((optSize * optTol) % 100))
            /\ dl.converted <=> (dl.format_change \/ dl.resize)
            /\ dl.file # NoFormat =>
                    dl.file = IF dl.converted THEN StatedOutputFormat ELSE coverFmt
            /\ dl.path = IF preserve /\ differ /\ ~dl.resize
                             THEN (IF coverFmt = "Png" THEN "png" ELSE "jpg")
                             ELSE outExt

\* a PNG cover no larger than asked, an output path in .jpg and
\* preserve_format: the data is copied to the path in .png
C29_Witness ==
    /\ dl.ret = "Ok"
    /\ dl.decided /\ ~dl.converted
    /\ preserve /\ coverFmt = "Png" /\ outExt = "jpg"
    /\ dl.path = "png" /\ dl.file = "Png"
    /\ Max(hint[1], hint[2]) = optSize + 1 /\ optTol = 25

\* C30: the PNG optimizer runs iff the format of the file finally written
\* is PNG, for every cover format, output extension, preserve_format and
\* need_resize; its failure never fails the download.
C30_CrunchIffPngWritten ==
    (dl.file # NoFormat) =>
        /\ dl.crunch # "no" <=> dl.file = "Png"
        /\ dl.crunch = "failed" => dl.ret = "Ok"

(***************************************************************************)
(* Claims on normalize                                                     *)
(***************************************************************************)
\* C31: normalize is idempotent: normalize(normalize(s)) = normalize(s) for
\* every string s, normalize mapping each character to the lowercase of the
\* first codepoint of its canonical decomposition.
C31_NormalizeIdempotent ==
    nout.called =>
        nout.twice = nout.once

\* a string with a character that decomposes in two steps and one whose
\* lowercase is two characters
C31_Witness ==
    /\ nout.called
    /\ nin = <<"ANGSTROM", "I_dot", "A_grave">>
    /\ nout.once = <<"a", "i", "a">>

(***************************************************************************)
(* Claims on CoverOutputPattern                                            *)
(***************************************************************************)
\* what the rules give for one character: the characters it becomes
StatedChar(c) ==
    CASE c \in {"/", "\\"} -> <<"-">>
      [] c \in {"|", "*"} -> <<"x">>
      [] c \in {"a", " ", ".", "{"} -> <<c>>
      [] OTHER -> <<>>

RECURSIVE StatedChars(_)
StatedChars(str) ==
    IF str = <<>> THEN <<>> ELSE StatedChar(Head(str)) \o StatedChars(Tail(str))

\* C32: sanitize_for_path maps / and \ to -, | and * to x, keeps ASCII
\* alphanumerics, space and -_.()!#$%&'@^{}~, drops every other character,
\* then trims leading and trailing spaces and dots; its output never
\* contains a path separator nor starts or ends with a space or a dot, and
\* the function is idempotent.
C32_SanitizeForPath ==
    sout.called =>
        LET mapped == StatedChars(sin)
            out == sout.once
        IN  /\ \E i \in 1..(Len(mapped) + 1) : \E j \in 0..Len(mapped) :
                /\ out = SubSeq(mapped, i, j)
                /\ \A k \in 1..(i - 1) : mapped[k] \in {" ", "."}
                /\ \A k \in (j + 1)..Len(mapped) : mapped[k] \in {" ", "."}
            /\ \A k \in 1..Len(out) : out[k] \notin {"/", "\\"}
            /\ out # <<>> => (out[1] \notin {" ", "."} /\ out[Len(out)] \notin {" ", "."})
            /\ sout.twice = out

\* a separator is replaced, a character out of ASCII dropped, and the dot
\* that ends up last is trimmed
C32_Witness ==
    /\ sout.called
    /\ sin = <<"/", ".", "e_acute">>
    /\ sout.once = <<"-">>

\* the pattern with every placeholder replaced at once, from left to right
RECURSIVE Substituted(_, _, _)
Substituted(pat, safe_artist, safe_album) ==
    IF pat = <<>> THEN <<>>
    ELSE IF Len(pat) >= 8 /\ SubSeq(pat, 1, 8) = ArtistPlaceholder
        THEN safe_artist \o Substituted(SubSeq(pat, 9, Len(pat)), safe_artist, safe_album)
    ELSE IF Len(pat) >= 7 /\ SubSeq(pat, 1, 7) = AlbumPlaceholder
        THEN safe_album \o Substituted(SubSeq(pat, 8, Len(pat)), safe_artist, safe_album)
    ELSE <<Head(pat)>> \o Substituted(Tail(pat), safe_artist, safe_album)

\* C40: in to_path_buf the text substituted for {artist} is never itself
\* interpreted as a placeholder: the result is the pattern with each
\* {artist} replaced by sanitize(artist) and each {album} of the original
\* pattern replaced by sanitize(album), even when the artist tag contains
\* the text {album}.
C40_ArtistNotPlaceholder ==
    path.called =>
        path.buf = Substituted(pattern, sanitize_for_path(artist), sanitize_for_path(album))

(***************************************************************************)
(* Claims on the walk of a library                                         *)
(***************************************************************************)
\* the directories the walk reaches: every directory above them can be read
RECURSIVE Reached(_)
Reached(d) ==
    d = 1 \/ (wtree.dir[wtree.parent[d]].readable /\ Reached(wtree.parent[d]))

\* the entries of d with an audio extension, whatever their case
WithAudioExtension(d) ==
    {f \in wtree.dir[d].files : f.ext \in {"mp3", "MP3"}}

\* those of them the iterator can see as regular files
ReadAsAudioFile(d) ==
    {f \in WithAudioExtension(d) : f.err = "none" /\ f.ftype = "file"}

\* the directories a list was yielded for
YieldedDirs == {yielded[i].dir : i \in 1..Len(yielded)}

RECURSIVE SumOfLengths(_)
SumOfLengths(lists) ==
    IF lists = <<>> THEN 0
    ELSE Cardinality(Head(lists).files) + SumOfLengths(Tail(lists))

\* what holds of the lists and of the counters whatever the entries
ListsAndCounters ==
    /\ \A i, j \in 1..Len(yielded) : yielded[i].dir = yielded[j].dir => i = j
    /\ \A i \in 1..Len(yielded) : yielded[i].files # {}
    /\ wdone =>
        /\ wstats.audio_dirs = Len(yielded)
        /\ wstats.audio_files = SumOfLengths(yielded)

\* C33 as stated: one list per directory that can be read and directly
\* contains at least one audio file (extension matched without case), never
\* an empty list; after the walk audio_dirs is the number of lists and
\* audio_files the sum of their lengths; a directory that cannot be read
\* adds 1 to errors and the walk continues.
C33_OneListPerAudioDir ==
    /\ ListsAndCounters
    /\ wdone =>
        /\ YieldedDirs = {d \in 1..NDirs :
                            /\ Reached(d) /\ wtree.dir[d].readable
                            /\ WithAudioExtension(d) # {}}
        /\ wstats.errors = Cardinality({d \in 1..NDirs : Reached(d) /\ ~wtree.dir[d].readable})

\* C33 amended: the audio files are the entries read without error as
\* regular files, and every entry that fails to be read counts as an error.
C33_OneListPerAudioDir_Amended ==
    /\ ListsAndCounters
    /\ wdone =>
        /\ YieldedDirs = {d \in 1..NDirs :
                            /\ Reached(d) /\ wtree.dir[d].readable
                            /\ ReadAsAudioFile(d) # {}}
        /\ \A i \in 1..Len(yielded) : yielded[i].files = ReadAsAudioFile(yielded[i].dir)
        /\ wstats.errors =
              Cardinality({d \in 1..NDirs : Reached(d) /\ ~wtree.dir[d].readable})
              + Cardinality({<<d, f>> \in (1..NDirs) \X FileKinds :
                                /\ Reached(d) /\ wtree.dir[d].readable
                                /\ f \in wtree.dir[d].files /\ f.err # "none"})

\* the root holds an audio file in upper case and a subdirectory that
\* cannot be read: one list, one error, the walk is over
C33_Witness ==
    /\ wdone
    /\ Len(yielded) = 1
    /\ yielded[1].dir = 1
    /\ \E f \in yielded[1].files : f.ext = "MP3"
    /\ \E d \in 2..NDirs : wtree.parent[d] = 1 /\ ~wtree.dir[d].readable
    /\ wstats.errors = 1

(***************************************************************************)
(* Claims on the download of the covers the size filter kept               *)
(***************************************************************************)
\* C34: whenever download calls matches_max_size(max(width, height)), its
\* debug assertion matches_min_size(max(width, height)) holds, for every
\* cover that passed the size filter, the covers of uncertain size whose
\* decoded dimensions differ from the hint included.
C34_DebugAssertionHolds ==
    kept = "kept" => dl.ret # "Panic"

(***************************************************************************)
(* Claims on the failure of the producer of get_or_set                     *)
(***************************************************************************)
\* the lock of a key is held by a caller whose producer is pending only
LockHeldByProducer ==
    \A k \in Keys :
        lockOwner[k] # NoTask => (pc[lockOwner[k]] = "setter" /\ tkey[lockOwner[k]] = k)

\* a caller waiting on a key whose lock is free can go on
WaiterCanProceed ==
    \A t \in Tasks :
        (pc[t] = "lock" /\ lockOwner[tkey[t]] = NoTask) => ENABLED GetOrSetLocked(t)

\* the step of a producer that fails stores nothing, returns Update and
\* releases the lock
FailedProducerStep ==
    \A t \in Tasks :
        (pc[t] = "setter" /\ pc'[t] = "done" /\ tret'[t] = Err("Update"))
            => (db' = db /\ lockOwner[tkey[t]] = t /\ lockOwner'[tkey[t]] = NoTask)

\* the step of a caller that gets the lock of an absent key starts its own
\* producer, unless the database fails
WaiterProducesStep ==
    \A t \in Tasks :
        (pc[t] = "lock" /\ pc'[t] # "lock" /\ db[tkey[t]] = NoEntry)
            => (pc'[t] = "setter" \/ tret'[t] = Err("Database"))

\* C35: when the producer of a get_or_set call fails, nothing is stored for
\* the key, the caller gets an Update error, the per-key lock is released,
\* and the next caller waiting on the key runs its own producer; the key is
\* never left locked or poisoned.
C35_FailedProducerReleases ==
    /\ [](LockHeldByProducer /\ WaiterCanProceed)
    /\ [][FailedProducerStep /\ WaiterProducesStep]_vars

\* after the producer of a caller failed, a caller that was waiting on the
\* same key runs its own producer, the key still absent
C35_Witness ==
    \E a, b \in Tasks :
        /\ a # b /\ tkey[a] = tkey[b]
        /\ pc[a] = "done" /\ tret[a] = Err("Update")
        /\ pc[b] = "setter" /\ lockOwner[tkey[b]] = b
        /\ seenAtEnter[b] = 0
        /\ db[tkey[b]] = NoEntry

(***************************************************************************)
(* Claims on the termination of SourceHttpClient::wait                     *)
(***************************************************************************)
\* every task that waits for the rate limit eventually sends its request
EveryWaitTerminates ==
    \A t \in RateTasks : (pc[t] \in {"wait", "sleep"}) ~> (pc[t] = "send")

\* C36 as stated: with a finite number of tasks calling wait() on the same
\* client and time advancing, each wait() loop terminates: no task is
\* starved forever, and a wait of zero duration does not loop forever.
C36_EveryWaitTerminates ==
    \A t \in RateTasks : (pc[t] \in {"wait", "sleep"}) ~> (pc[t] \in {"send", "done"})

\* C36 amended: each wait() loop terminates when the requests started on the
\* client are finitely many.
C36_TerminatesIfFinitelyManyRequests ==
    \/ []<><<\E t \in RateTasks : DownloadCover(t, "k1")>>_vars
    \/ EveryWaitTerminates

\* a task sends its request after a sleep of zero duration
C36_Witness ==
    \E t \in RateTasks : pc[t] = "send" /\ zeroWait[t]

(***************************************************************************)
(* Claims on sacad_r                                                       *)
(***************************************************************************)
\* C37: every Work item sent on the channel is received by exactly one
\* worker and increments exactly one of the counters done, no_result_found
\* or errors exactly once; after the sender is dropped every worker
\* terminates once the channel is drained, and main finishes only after
\* every sent item has been handled.
C37_EachItemHandledOnce ==
    /\ \A i \in Items : Cardinality(handledBy[i]) <= 1
    /\ \A i \in Items : Len(incremented[i]) <= 1
    /\ mainPc = "finished" =>
        /\ \A w \in Workers : wstate[w].st # "handling"
        /\ chan = <<>>
        /\ \A i \in 1..sent : Cardinality(handledBy[i]) = 1 /\ Len(incremented[i]) = 1

(***************************************************************************)
(* Claims on the arithmetic of the size bounds                             *)
(***************************************************************************)
\* C38: the computations size - size * tolerance / 100 and
\* size + size * tolerance / 100 never underflow or overflow the unsigned
\* arithmetic, for any size and any size_tolerance_prct the command line
\* accepts.
C38_NoOverflow ==
    sizeBounds.called => ~sizeBounds.overflowed /\ sizeBounds.ret # "Panic"

(***************************************************************************)
(* Claims on the entries written after the current time                    *)
(***************************************************************************)
\* C39: an entry whose created_at is later than the current time at open
\* (the clock moved backwards since it was written) is removed by
\* maintenance, although its age does not exceed max_age.
C39_FutureEntryRemoved ==
    [][(~copen /\ copen') =>
        \A k \in Keys :
            (db[k] # NoEntry /\ db[k].created_at # BadSecs /\ db[k].created_at > sysTime)
                => db'[k] = NoEntry]_vars

\* an open that found the entry of the file written after the current time
\* and removed it
C39_Witness ==
    /\ copen
    /\ compacted
    /\ cret = NoGet
    /\ \E k \in Keys :
        /\ db0[k] # NoEntry
        /\ db0[k].created_at # BadSecs
        /\ db0[k].created_at > sysTime
        /\ db[k] = NoEntry
        /\ written[k] = NoWrite

====
